---- MODULE Spec2Model ----
(***************************************************************************)
(* A model of RotationalClosuresModel.py: the Model object and its         *)
(* management parameters, the dispersal matrix kP, the forcing function    *)
(* square_signal, the bisection find_unstable_equilibrium and the scan of  *)
(* get_coral_recovery_time.                                                *)
(*                                                                         *)
(* Numbers.  The program computes in Python floats.  The model computes    *)
(* in exact rationals: a number is a record [num, den] in lowest terms     *)
(* with den > 0, and a division by zero, which Python raises as            *)
(* ZeroDivisionError, is the value with den = 0.  Floating-point rounding  *)
(* is not modelled.  Times and closure lengths are integers: a common      *)
(* denominator of t and closure_length cancels in                          *)
(* (t % (n*closure_length)) / closure_length.                              *)
(***************************************************************************)
EXTENDS Integers, Sequences, FiniteSets, TLC

VARIABLES
    pc,              \* position of the run being modelled
    model_type,      \* Model.model_type
    n,               \* Model.n
    frac_nomove,     \* Model.frac_nomove
    mgmt_strat,      \* Model.mgmt_strat
    f,               \* Model.f
    closure_length,  \* Model.closure_length
    m,               \* Model.m
    poaching,        \* Model.poaching
    kP,              \* Model.kP, <<>> until initialize_patch_model has run
    t,               \* the time of the last right-hand-side evaluation
    signal,          \* signal[i]: what square_signal returned for patch i
    path,            \* path[i]: the return statement square_signal took for patch i
    X1,              \* Model.X1, the low-coral preset, <<>> until initialized
    X2,              \* Model.X2, the high-coral preset, <<>> until initialized
    lowC,            \* find_unstable_equilibrium: argument lowC of the current call
    highC,           \* find_unstable_equilibrium: argument highC of the current call
    recursion_depth, \* find_unstable_equilibrium: argument recursion_depth
    midpoint,        \* find_unstable_equilibrium: local midpoint
    mid_sol,         \* find_unstable_equilibrium: mid_sol[len(t) - 1], the final row
    grew,            \* the sign of mid_sol[len(t) - 1][1] - midpoint: -1, 0 or 1
    fue_ret,         \* what the outermost find_unstable_equilibrium returned
    lowC0,           \* the lowC the caller passed to the outermost call
    highC0,          \* the highC the caller passed to the outermost call
    coralsol,        \* get_coral_recovery_time: coralsol, the reference trajectory
    high_coral_eq,   \* get_coral_recovery_time: the threshold of the model family
    crt,             \* what get_coral_recovery_time returned to its caller
    caller_branch,   \* the branch the caller took on the returned recovery time
    z,               \* get_coral_recovery_time: z, the reference model, and its run
    params,          \* the attributes load_parameters has set, NoParams before it
    dPs,             \* Model.dPs, scratch array of the fish derivatives
    dCs,             \* Model.dCs, scratch array of the coral derivatives
    dMs,             \* Model.dMs, scratch array of the algae derivatives
    dMvs,            \* Model.dMvs, scratch array ('RB' only)
    dMis,            \* Model.dMis, scratch array ('RB' only)
    X,               \* patch_system: the state vector X of the last call
    kernel,          \* patch_system: the kernel the last call entered
    rhs_ret,         \* patch_system: the array the last call returned
    held,            \* an array patch_system returned earlier, still held by its caller
    IC_set,          \* run_model: the initial state handed to the solver
    solver_status,   \* run_model: what the solver reported about its run
    run_sol,         \* run_model: the array odeint handed back
    run_ret,         \* run_model: what run_model returned to its caller
    period,          \* scenario_plot: the period of the sweep being dispatched
    fishing_intensity, \* scenario_plot: argument fishing_intensity
    task_state,      \* task_state[k]: "pending", "running" or "done" for the call with m = k
    w_task,          \* w_task[w]: the m of the call worker w is running
    w_pc,            \* w_pc[w]: the position of worker w inside loop_over_m_vals
    w_evals,         \* w_evals[w]: right-hand-side evaluations of the current run so far
    objs,            \* objs[o]: the Model object in address space o (0: the parent's)
    observed,        \* observed[k]: the management parameters run k has evaluated with
    seen_buf,        \* seen_buf[k]: whose derivatives run k has found in the buffers
    res,             \* res[k]: the m that call k returned to Parallel
    avg,             \* loop_over_m_vals: the averaging loop, its indices and its value
    hist_t,          \* fishing_yield_from_history: argument t, the output times
    hist_P,          \* fishing_yield_from_history: argument P, the fish history
    yield_j,         \* fishing_yield_from_history: argument j, the patch
    yield_strat,     \* fishing_yield_from_history: argument strat
    fishing_yield    \* fishing_yield_from_history: the array returned

modelVars == <<model_type, n, frac_nomove, mgmt_strat, f, closure_length, m, poaching>>
presetVars == <<kP, X1, X2>>
signalVars == <<t, signal, path>>
bisectVars ==
    <<lowC, highC, recursion_depth, midpoint, mid_sol, grew, fue_ret, lowC0, highC0>>
recoveryVars == <<coralsol, high_coral_eq, crt, caller_branch, z>>
scratchVars == <<dPs, dCs, dMs, dMvs, dMis>>
rhsVars == <<params, X, kernel, rhs_ret, held>>
runVars == <<IC_set, solver_status, run_sol, run_ret>>
sweepVars == <<period, fishing_intensity, task_state, w_task, w_pc, w_evals,
               objs, observed, seen_buf, res, avg>>
yieldVars == <<hist_t, hist_P, yield_j, yield_strat, fishing_yield>>

vars == <<pc, modelVars, presetVars, signalVars, bisectVars, recoveryVars,
          scratchVars, rhsVars, runVars, sweepVars, yieldVars>>

----------------------------------------------------------------------------
(* Bounds of the model *)

MaxN == 4
PoachDen == 2
FracDen == 2
MaxCL == 2
MaxT == 16

----------------------------------------------------------------------------
(* Exact rational arithmetic standing for Python's float arithmetic *)

Abs(x) == IF x < 0 THEN -x ELSE x

RECURSIVE GCD(_, _)
GCD(a, b) == IF b = 0 THEN a ELSE GCD(b, a % b)

ZeroDivisionError == [num |-> 0, den |-> 0]

IsErr(x) == x.den = 0

\* a/b in lowest terms, b # 0
Rat(a, b) ==
    LET g == GCD(Abs(a), Abs(b))
        s == IF b < 0 THEN -1 ELSE 1
    IN [num |-> (s * a) \div g, den |-> (s * b) \div g]

RInt(a) == [num |-> a, den |-> 1]

RAdd(x, y) ==
    IF IsErr(x) \/ IsErr(y) THEN ZeroDivisionError
    ELSE Rat(x.num * y.den + y.num * x.den, x.den * y.den)

RNeg(x) == IF IsErr(x) THEN ZeroDivisionError ELSE [num |-> -x.num, den |-> x.den]

RSub(x, y) == RAdd(x, RNeg(y))

RMul(x, y) ==
    IF IsErr(x) \/ IsErr(y) THEN ZeroDivisionError
    ELSE Rat(x.num * y.num, x.den * y.den)

\* Python's x / y: raises ZeroDivisionError when y is zero
RDiv(x, y) ==
    IF IsErr(x) \/ IsErr(y) \/ y.num = 0 THEN ZeroDivisionError
    ELSE Rat(x.num * y.den, x.den * y.num)

RLeq(x, y) == x.num * y.den <= y.num * x.den

\* Python's a % b on integers, b # 0: the result has the sign of b
PyMod(a, b) == IF b > 0 THEN a % b ELSE -((-a) % (-b))

\* Python's int(a / b) on integers, b # 0: truncation toward zero
PyIntDiv(a, b) ==
    IF (a >= 0) = (b > 0) THEN Abs(a) \div Abs(b) ELSE -(Abs(a) \div Abs(b))

----------------------------------------------------------------------------
(* square_signal: the management forcing function *)

Strategies == {"periodic", "MPA"}

SignalStart_UnitSlot(tt, cl, nn) ==
    IF cl # 0 THEN PyIntDiv(PyMod(tt, nn * cl), cl) ELSE tt % nn

\* the same with a cycle one slot too long: the window start reaches n
SignalStart_LongCycle(tt, cl, nn) ==
    IF cl # 0 THEN PyIntDiv(PyMod(tt, (nn + 1) * cl), cl) ELSE 0

\* the same with a window that never starts at the last patch
SignalStart_SkipLast(tt, cl, nn) ==
    IF cl # 0
    THEN (IF PyIntDiv(PyMod(tt, nn * cl), cl) = nn - 1
          THEN 0 ELSE PyIntDiv(PyMod(tt, nn * cl), cl))
    ELSE 0

\* lines 1089-1093: the index of the first closed patch
SignalStart(tt, cl, nn) ==
    IF cl # 0 THEN PyIntDiv(PyMod(tt, nn * cl), cl) ELSE 0

SignalEnd_NoModulo(start, mm, nn) == start + mm - 1

SignalEnd_AlwaysModulo(start, mm, nn) == (start + mm - 1) % nn

\* the same with the wrapped end one patch short
SignalEnd_WrapShort(start, mm, nn) ==
    IF start + mm - 1 >= nn THEN (start + mm - 2) % nn ELSE start + mm - 1

\* lines 1095-1101: the index of the last closed patch
SignalEnd(start, mm, nn) ==
    IF start + mm - 1 >= nn THEN (start + mm - 1) % nn ELSE start + mm - 1

\* line 1114 and line 1124: the multiplier of an open patch
OpenValue(mm, nn, p) ==
    RDiv(RSub(RInt(1), RMul(RDiv(RInt(mm), RInt(nn)), p)),
         RSub(RInt(1), RDiv(RInt(mm), RInt(nn))))

square_signal_path_NoWrapTest(tt, cl, region, mm, nn, strat) ==
    IF strat = "periodic" THEN
        LET start == SignalStart(tt, cl, nn)
            end   == SignalEnd(start, mm, nn)
        IN IF region >= start /\ region <= end THEN "periodic_closed"
           ELSE "periodic_open"
    ELSE IF strat = "MPA" THEN
        IF mm = 0 THEN "mpa_nothing_closed"
        ELSE IF mm = nn THEN "mpa_all_closed"
        ELSE IF region <= mm THEN "mpa_closed"
        ELSE "mpa_open"
    ELSE "none"

square_signal_path_StrictIndex(tt, cl, region, mm, nn, strat) ==
    IF strat = "periodic" THEN
        LET start == SignalStart(tt, cl, nn)
            end   == SignalEnd(start, mm, nn)
        IN IF region >= start /\ region <= end THEN "periodic_closed"
           ELSE IF start + mm - 1 >= nn /\ (region >= start \/ region <= end)
                THEN "periodic_closed_wrap"
           ELSE "periodic_open"
    ELSE IF strat = "MPA" THEN
        IF mm = 0 THEN "mpa_nothing_closed"
        ELSE IF mm = nn THEN "mpa_all_closed"
        ELSE IF region < mm THEN "mpa_closed"
        ELSE "mpa_open"
    ELSE "none"

\* lines 1087-1124: the return statement square_signal reaches
square_signal_path(tt, cl, region, mm, nn, strat) ==
    IF strat = "periodic" THEN
        LET start == SignalStart(tt, cl, nn)
            end   == SignalEnd(start, mm, nn)
        IN IF region >= start /\ region <= end THEN "periodic_closed"
           ELSE IF start + mm - 1 >= nn /\ (region >= start \/ region <= end)
                THEN "periodic_closed_wrap"
           ELSE "periodic_open"
    ELSE IF strat = "MPA" THEN
        IF mm = 0 THEN "mpa_nothing_closed"
        ELSE IF mm = nn THEN "mpa_all_closed"
        ELSE IF region <= mm THEN "mpa_closed"
        ELSE "mpa_open"
    ELSE "none"

\* what a Python function returns when it reaches its end without a return
NoneValue == [num |-> 0, den |-> -1]

ClosedPaths == {"periodic_closed", "periodic_closed_wrap", "mpa_all_closed", "mpa_closed"}
OpenPaths == {"periodic_open", "mpa_open"}

\* lines 1085-1124: the value square_signal returns
square_signal(tt, cl, region, mm, nn, p, strat) ==
    LET ret == square_signal_path(tt, cl, region, mm, nn, strat)
    IN IF ret \in ClosedPaths THEN p
       ELSE IF ret \in OpenPaths THEN OpenValue(mm, nn, p)
       ELSE IF ret = "mpa_nothing_closed" THEN RInt(1)
       ELSE NoneValue

----------------------------------------------------------------------------
(* The forcing specification: a Model is constructed, its management       *)
(* parameters are set, and the right-hand side asks square_signal for the  *)
(* multiplier of every patch at a time t.                                  *)

Patches == 0 .. (n - 1)

FishingValues == {0, 1}

PoachingValues == {Rat(k, PoachDen) : k \in 0 .. PoachDen}

\* the parts of the state a run has not touched yet
NoPresets == kP = <<>> /\ X1 = <<>> /\ X2 = <<>>
NoEvaluation == t = 0 /\ signal = <<>> /\ path = <<>>
NoBisection ==
    /\ lowC = RInt(0) /\ highC = RInt(0) /\ recursion_depth = 0
    /\ midpoint = RInt(0) /\ mid_sol = <<>> /\ grew = 0 /\ fue_ret = NoneValue
    /\ lowC0 = RInt(0) /\ highC0 = RInt(0)
NoRecovery ==
    /\ coralsol = <<>> /\ high_coral_eq = RInt(0) /\ crt = 0 /\ caller_branch = "none"
    /\ z = <<>>
NoScratch == dPs = <<>> /\ dCs = <<>> /\ dMs = <<>> /\ dMvs = <<>> /\ dMis = <<>>
NoRhs == params = <<>> /\ X = <<>> /\ kernel = "none" /\ rhs_ret = <<>> /\ held = <<>>
NoRun ==
    /\ IC_set = <<>> /\ solver_status = "none" /\ run_sol = <<>> /\ run_ret = <<>>
NoSweep ==
    /\ period = 0 /\ fishing_intensity = 0 /\ task_state = <<>> /\ w_task = <<>>
    /\ w_pc = <<>> /\ w_evals = <<>> /\ objs = <<>> /\ observed = <<>>
    /\ seen_buf = <<>> /\ res = <<>> /\ avg = <<>>
NoYield ==
    /\ hist_t = <<>> /\ hist_P = <<>> /\ yield_j = 0 /\ yield_strat = "none"
    /\ fishing_yield = <<>>

\* lines 44-53: Model.__init__
SignalInit ==
    /\ pc = "constructed"
    /\ model_type = "vdL"
    /\ n \in 1 .. MaxN
    /\ frac_nomove = RInt(1)
    /\ mgmt_strat \in Strategies
    /\ f = 0
    /\ closure_length = 0
    /\ m = 0
    /\ poaching = RInt(0)
    /\ NoPresets
    /\ NoEvaluation
    /\ NoBisection
    /\ NoRecovery
    /\ NoScratch
    /\ NoRhs
    /\ NoRun
    /\ NoSweep
    /\ NoYield
\* lines 973-977: Model.set_mgmt_params called with arguments from the given sets
set_mgmt_params_from(CLs, Fs, Ms, Ps) ==
    \E cl \in CLs, ff \in Fs, mm \in Ms, p \in Ps :
        /\ closure_length' = cl
        /\ f' = ff
        /\ m' = mm
        /\ poaching' = p
        /\ pc' = "configured"
        \* a new run: what the last evaluation returned is gone
        /\ t' = 0
        /\ signal' = <<>>
        /\ path' = <<>>
        /\ UNCHANGED <<model_type, n, frac_nomove, mgmt_strat>>
        /\ UNCHANGED <<presetVars, bisectVars, recoveryVars>>
        /\ UNCHANGED <<scratchVars, rhsVars, runVars, sweepVars, yieldVars>>

\* lines 973-977: Model.set_mgmt_params
set_mgmt_params ==
    set_mgmt_params_from((-MaxCL) .. MaxCL, FishingValues, 0 .. n, PoachingValues)

\* lines 985-1040 with 1055, 1145, 1160: one evaluation of the right-hand side
\* asks square_signal for the multiplier of every patch i at time t
EvalForcing ==
    \E tt \in 0 .. MaxT :
        /\ t' = tt
        /\ signal' = [i \in Patches |->
                        square_signal(tt, closure_length, i, m, n, poaching, mgmt_strat)]
        /\ path' = [i \in Patches |->
                        square_signal_path(tt, closure_length, i, m, n, mgmt_strat)]
        /\ pc' = "evaluated"
        /\ UNCHANGED <<modelVars, presetVars, bisectVars, recoveryVars>>
        /\ UNCHANGED <<scratchVars, rhsVars, runVars, sweepVars, yieldVars>>

SignalNext == set_mgmt_params \/ EvalForcing

SpecSignal == SignalInit /\ [][SignalNext]_vars

----------------------------------------------------------------------------
(* Claims about square_signal, checked under SpecSignal *)

Evaluated == pc = "evaluated"

RECURSIVE SumTo(_, _)
SumTo(sig, k) == IF k = 0 THEN RInt(0) ELSE RAdd(SumTo(sig, k - 1), sig[k - 1])

\* the mean over all patches of what the last evaluation returned
MeanSignal == RDiv(SumTo(signal, n), RInt(n))

\* the open multiplier (1 - (m/n)*poaching)/(1 - m/n) in closed form, m < n
OpenClosedForm == Rat(n * poaching.den - m * poaching.num, (n - m) * poaching.den)

\* C1 as stated: under PERIODIC, for every n >= 1, every m in 0..n, every
\* poaching, closure_length and t, the mean over all patches of square_signal
\* equals exactly 1.
C1_MeanIsOne ==
    (Evaluated /\ mgmt_strat = "periodic") => MeanSignal = RInt(1)

\* C1 amended: under PERIODIC the mean over all patches of square_signal equals
\* exactly 1 for every m with 0 <= m < n; for m = n every patch is closed and
\* the mean is poaching.
C1_MeanIsOneBelowN ==
    (Evaluated /\ mgmt_strat = "periodic") =>
        /\ m < n => MeanSignal = RInt(1)
        /\ m = n => MeanSignal = poaching

\* C1 witness: a rotation whose closed window wraps past patch n-1, with a
\* poaching strictly between 0 and 1, some patch closed and some open
C1_Witness ==
    /\ Evaluated /\ mgmt_strat = "periodic"
    /\ 0 < m /\ m < n
    /\ poaching = Rat(1, 2)
    /\ \E i \in Patches : path[i] = "periodic_closed_wrap"
    /\ \E i \in Patches : path[i] = "periodic_open"
    /\ MeanSignal = RInt(1)

\* C2: when m = n, square_signal returns poaching for every patch at every time
\* under both strategies and every closure_length, and the open-patch formula
\* (whose denominator 1 - m/n is zero) is never evaluated.
C2_AllClosedWhenMIsN ==
    (Evaluated /\ m = n) =>
        \A i \in Patches : signal[i] = poaching /\ path[i] \notin OpenPaths

\* C2 witness: m = n under PERIODIC at a time where the window wraps
C2_Witness ==
    /\ Evaluated /\ m = n /\ n >= 2
    /\ mgmt_strat = "periodic"
    /\ poaching = Rat(1, 2)
    /\ SignalStart(t, closure_length, n) >= 1
    /\ \A i \in Patches : path[i] = "periodic_closed_wrap" /\ signal[i] = poaching

\* C3: when m = 0 under PERIODIC, square_signal returns 1 for every patch at
\* every time, closure_length and poaching; no patch is treated as closed and
\* no division by zero occurs.
C3_AllOpenWhenMIsZero ==
    (Evaluated /\ mgmt_strat = "periodic" /\ m = 0) =>
        \A i \in Patches : signal[i] = RInt(1) /\ path[i] = "periodic_open"

\* C3 witness: m = 0 with the window start 0 and the computed window end -1
C3_Witness ==
    /\ Evaluated /\ mgmt_strat = "periodic" /\ m = 0
    /\ closure_length # 0 /\ t > 0
    /\ poaching = Rat(1, 2)
    /\ SignalStart(t, closure_length, n) = 0
    /\ SignalEnd(SignalStart(t, closure_length, n), m, n) = -1
    /\ \A i \in Patches : signal[i] = RInt(1)

\* C4 as stated: for the same n, m (0 <= m < n) and poaching, the sum over all
\* patches of the STATIC_MPA multiplier equals the sum over all patches of the
\* PERIODIC multiplier, and both equal n.
C4_EffortConserved ==
    (Evaluated /\ mgmt_strat = "MPA" /\ m < n) =>
        /\ SumTo(signal, n) = RInt(n)
        /\ SumTo(signal, n) =
             SumTo([i \in Patches |->
                      square_signal(t, closure_length, i, m, n, poaching, "periodic")], n)

\* C5: under STATIC_MPA with 0 < m < n the patches that take the closed return
\* are exactly those with index <= m (m+1 patches), every other patch returns
\* (1 - (m/n)*poaching)/(1 - m/n), whatever t and closure_length are.
C5_StaticClosedSet ==
    (Evaluated /\ mgmt_strat = "MPA" /\ 0 < m /\ m < n) =>
        /\ \A i \in Patches :
              /\ i <= m => (path[i] = "mpa_closed" /\ signal[i] = poaching)
              /\ i > m  => (path[i] = "mpa_open" /\ signal[i] = OpenClosedForm)
        /\ Cardinality({i \in Patches : path[i] \in ClosedPaths}) = m + 1

\* C5 witness: a static closure with open patches left, at a time and closure
\* length that a rotation would have moved away from slot 0
C5_Witness ==
    /\ Evaluated /\ mgmt_strat = "MPA"
    /\ 0 < m /\ m + 1 < n
    /\ t > 0 /\ closure_length # 0
    /\ SignalStart(t, closure_length, n) # 0
    /\ poaching = Rat(1, 2)
    /\ signal[n - 1] = OpenClosedForm

\* C6 as stated: with closure_length = 0 under PERIODIC every patch is treated
\* as open, for every m and t, and never receives the closed multiplier.
C6_AlwaysOpenWhenNoPeriod ==
    (Evaluated /\ mgmt_strat = "periodic" /\ closure_length = 0) =>
        \A i \in Patches : path[i] = "periodic_open"

\* C6 amended: with closure_length = 0 under PERIODIC the window start is slot 0
\* at every time t, so patches 0..m-1 receive poaching and the others the open
\* multiplier; every patch is open, at multiplier 1, only when m = 0.
C6_SlotZeroWhenNoPeriod ==
    (Evaluated /\ mgmt_strat = "periodic" /\ closure_length = 0) =>
        /\ \A i \in Patches :
              /\ i < m  => (path[i] = "periodic_closed" /\ signal[i] = poaching)
              /\ i >= m => (path[i] = "periodic_open" /\ signal[i] = OpenClosedForm)
        /\ m = 0 => \A i \in Patches : signal[i] = RInt(1)

\* C6 witness: closure_length = 0, a patch closed and a patch open, t > 0
C6_Witness ==
    /\ Evaluated /\ mgmt_strat = "periodic" /\ closure_length = 0
    /\ t > 0 /\ 0 < m /\ m < n
    /\ path[0] = "periodic_closed" /\ path[n - 1] = "periodic_open"

----------------------------------------------------------------------------
(* initialize_patch_model and RB_initialize_patch_model: the dispersal     *)
(* matrix kP, the presets X1, X2 and the scratch arrays dPs, dCs, dMs       *)
(* (dMvs, dMis for 'RB'); an attribute that does not exist is <<>>.  The    *)
(* arrays P, C, M (Mi, Mv) the initializers also allocate are written and   *)
(* read by no function the model covers and are left out.                   *)

ModelTypes == {"vdL", "vdL_MC", "vdL_MP", "vdL_PC", "BM", "RB", "other"}


\* lines 861-943: the model_type values load_parameters has a branch for
RecognizedTypes == {"vdL", "vdL_MC", "vdL_MP", "vdL_PC", "BM", "RB"}

FracValues == {Rat(k, FracDen) : k \in 0 .. FracDen}

\* lines 138, 685, 823: the initial values every caller passes
P0 == Rat(1, 10)
C0L == Rat(4, 100)
C0H == Rat(4, 10)
M0L == Rat(4, 100)
M0H == Rat(4, 10)
M0iL == Rat(4, 10)
M0iH == Rat(4, 100)

\* [x]*nn
Repeat(x, nn) == [k \in 1 .. nn |-> x]

\* lines 64 and 88: the fraction of fish dispersing to each other patch
frac_dispersed(fn, nn) == RMul(RSub(RInt(1), fn), RDiv(RInt(1), RInt(nn)))

kP_entry_DiagonalTimesN(i, j, fd, nn) ==
    IF i = j THEN RMul(RNeg(fd), RInt(nn)) ELSE fd

\* lines 69-71 and 93-95: the entry [i][j] of kP
kP_entry(i, j, fd, nn) ==
    IF i = j THEN RMul(RNeg(fd), RInt(nn - 1)) ELSE fd

\* lines 76-80 and 98-105: np.empty(n) allocates without writing, so the array
\* holds whatever the memory held; the model lets the memory hold one of the
\* values of EmptyFill in every entry
EmptyFill == {RInt(0), RInt(1)}
np_empty(nn, fill) == [i \in 0 .. (nn - 1) |-> fill]

\* lines 66-72 and 90-96: the loops that fill kP
build_kP(fn, nn) ==
    [i \in 0 .. (nn - 1) |->
        [j \in 0 .. (nn - 1) |-> kP_entry(i, j, frac_dispersed(fn, nn), nn)]]

\* lines 44-53: Model.__init__
PresetInit ==
    /\ pc = "constructed"
    /\ model_type \in ModelTypes
    /\ n \in 1 .. MaxN
    /\ frac_nomove \in FracValues
    /\ mgmt_strat \in Strategies
    /\ f = 0
    /\ closure_length = 0
    /\ m = 0
    /\ poaching = RInt(0)
    /\ NoPresets
    /\ NoEvaluation
    /\ NoBisection
    /\ NoRecovery
    /\ NoScratch
    /\ NoRhs
    /\ NoRun
    /\ NoSweep
    /\ NoYield
\* lines 57-82: Model.initialize_patch_model for the three-compartment families
initialize_patch_model ==
    /\ model_type # "RB"
    /\ n >= 1
    /\ kP' = build_kP(frac_nomove, n)
    /\ X1' = Repeat(P0, n) \o Repeat(C0L, n) \o Repeat(M0H, n)
    /\ X2' = Repeat(P0, n) \o Repeat(C0H, n) \o Repeat(M0L, n)
    /\ \E fill \in EmptyFill :
        /\ dPs' = np_empty(n, fill)
        /\ dCs' = np_empty(n, fill)
        /\ dMs' = np_empty(n, fill)
    /\ pc' = "initialized"
    /\ UNCHANGED <<modelVars, signalVars, bisectVars, recoveryVars>>
    /\ UNCHANGED <<dMvs, dMis, rhsVars, runVars, sweepVars, yieldVars>>

\* lines 60-62 and 86-108: Model.RB_initialize_patch_model, reached through
\* initialize_patch_model when model_type is 'RB'
RB_initialize_patch_model ==
    /\ model_type = "RB"
    /\ n >= 1
    /\ kP' = build_kP(frac_nomove, n)
    /\ X1' = Repeat(P0, n) \o Repeat(C0L, n) \o Repeat(M0H, n) \o Repeat(M0iH, n)
    /\ X2' = Repeat(P0, n) \o Repeat(C0H, n) \o Repeat(M0L, n) \o Repeat(M0iL, n)
    /\ \E fill \in EmptyFill :
        /\ dPs' = np_empty(n, fill)
        /\ dCs' = np_empty(n, fill)
        /\ dMis' = np_empty(n, fill)
        /\ dMvs' = np_empty(n, fill)
    /\ pc' = "initialized"
    /\ UNCHANGED <<modelVars, signalVars, bisectVars, recoveryVars>>
    /\ UNCHANGED <<dMs, rhsVars, runVars, sweepVars, yieldVars>>

PresetNext == initialize_patch_model \/ RB_initialize_patch_model

SpecPreset == PresetInit /\ [][PresetNext]_vars

(* Claims about the dispersal matrix, checked under SpecPreset *)

Initialized == pc = "initialized"

RECURSIVE RowSum(_, _)
RowSum(row, k) == IF k = 0 THEN RInt(0) ELSE RAdd(RowSum(row, k - 1), row[k - 1])

\* (1 - frac_nomove)/n in closed form
OffDiagonalClosedForm == Rat(frac_nomove.den - frac_nomove.num, frac_nomove.den * n)

\* -(n-1)*(1 - frac_nomove)/n in closed form
DiagonalClosedForm ==
    Rat(-((n - 1) * (frac_nomove.den - frac_nomove.num)), frac_nomove.den * n)

\* C7: for every n >= 1 and frac_nomove in [0,1], the matrix kP built by
\* initialize_patch_model and by RB_initialize_patch_model has every row summing
\* to 0, all off-diagonal entries equal to (1 - frac_nomove)/n and non-negative,
\* and every diagonal entry equal to -(n-1)*(1 - frac_nomove)/n.
C7_DispersalMatrix ==
    Initialized =>
        \A i \in Patches :
            /\ RowSum(kP[i], n) = RInt(0)
            /\ kP[i][i] = DiagonalClosedForm
            /\ \A j \in Patches \ {i} :
                  /\ kP[i][j] = OffDiagonalClosedForm
                  /\ kP[i][j].num >= 0 /\ kP[i][j].den > 0

\* C7 witness: a matrix of at least three patches with a dispersal that is
\* neither zero nor complete
C7_Witness ==
    /\ Initialized /\ n >= 3
    /\ frac_nomove = Rat(1, 2)
    /\ kP[0][1] = Rat(1, 2 * n)
    /\ kP[1][1] = Rat(-(n - 1), 2 * n)
    /\ RowSum(kP[1], n) = RInt(0)

----------------------------------------------------------------------------
(* find_unstable_equilibrium: the bisection on coral cover.  The solver is *)
(* a black box: of the integration only the final row mid_sol[len(t) - 1]  *)
(* is kept, and its fish and coral entries may lie below or above the      *)
(* midpoint, the coral entries also on it.  A recursive call is a tail     *)
(* call (return self.find_...), so the current call's arguments are the    *)
(* whole stack.                                                            *)

\* line 665: the recursion depth past which the midpoint is returned
MaxDepth == 10

\* line 652: the defaults of lowC and highC
DefaultLowC == Rat(1, 10)
DefaultHighC == Rat(7, 10)

\* the brackets a caller passes to the outermost call
CallerLows == {Rat(1, 10), Rat(3, 10)}
CallerHighs == {Rat(5, 10), Rat(7, 10)}

\* the patch counts of the models the bisection is run on
BisectPatches == {1, 2}

\* lines 670 and 675: the index read from the final row, mid_sol[len(t) - 1][1]
ComparedIndex == 1

\* the sign of a fraction
Sgn(x) == IF x.num > 0 THEN 1 ELSE IF x.num < 0 THEN -1 ELSE 0

\* line 663: the final rows an integration from IC_mid can end in: every
\* patch with the same fish density and the same coral cover, the algae at
\* their initial 0.04
EndRows(mid, nn) ==
    {Repeat(fish, nn) \o Repeat(coral, nn) \o Repeat(Rat(4, 100), nn) :
        fish \in {RInt(0), RInt(1)}, coral \in {RInt(0), mid, RInt(1)}}

\* lines 44-53 and line 652: an initialized model, and the outermost call
BisectInit ==
    /\ pc = "fue_called"
    /\ model_type = "vdL"
    /\ n \in BisectPatches
    /\ frac_nomove = RInt(1)
    /\ mgmt_strat = "periodic"
    /\ f = 0
    /\ closure_length = 0
    /\ m = 0
    /\ poaching = RInt(0)
    /\ kP = build_kP(frac_nomove, n)
    /\ X1 = Repeat(P0, n) \o Repeat(C0L, n) \o Repeat(M0H, n)
    /\ X2 = Repeat(P0, n) \o Repeat(C0H, n) \o Repeat(M0L, n)
    /\ NoEvaluation
    /\ NoRecovery
    /\ NoScratch
    /\ NoRhs
    /\ NoRun
    /\ NoSweep
    /\ NoYield
    /\ lowC \in CallerLows
    /\ highC \in CallerHighs
    /\ lowC0 = lowC
    /\ highC0 = highC
    /\ recursion_depth = 0
    /\ midpoint = RInt(0)
    /\ mid_sol = <<>>
    /\ grew = 0
    /\ fue_ret = NoneValue

\* lines 656-663: the midpoint, and the integration started from it
fue_integrate ==
    /\ pc = "fue_called"
    /\ \E mid \in {RDiv(RAdd(lowC, highC), RInt(2))} :
        /\ midpoint' = mid
        /\ \E row \in EndRows(mid, n) :
            /\ mid_sol' = row
            /\ grew' = Sgn(RSub(row[ComparedIndex + 1], mid))
    /\ pc' = "fue_integrated"
    /\ UNCHANGED <<modelVars, presetVars, signalVars, recoveryVars>>
    /\ UNCHANGED <<scratchVars, rhsVars, runVars, sweepVars, yieldVars>>
    /\ UNCHANGED <<lowC, highC, recursion_depth, fue_ret, lowC0, highC0>>

\* lines 665-667: past the depth bound the midpoint is returned
fue_close_enough ==
    /\ pc = "fue_integrated"
    /\ recursion_depth > MaxDepth
    /\ fue_ret' = midpoint
    /\ pc' = "fue_returned"
    /\ UNCHANGED <<modelVars, presetVars, signalVars, recoveryVars>>
    /\ UNCHANGED <<scratchVars, rhsVars, runVars, sweepVars, yieldVars>>
    /\ UNCHANGED <<lowC, highC, recursion_depth, midpoint, mid_sol, grew, lowC0, highC0>>

\* lines 670-673: coral grew; the recursive call passes lowC = midpoint and
\* recursion_depth, and highC takes its default
fue_going_up ==
    /\ pc = "fue_integrated"
    /\ ~(recursion_depth > MaxDepth)
    /\ grew > 0
    /\ lowC' = midpoint
    /\ highC' = DefaultHighC
    /\ recursion_depth' = recursion_depth + 1
    /\ pc' = "fue_called"
    /\ UNCHANGED <<modelVars, presetVars, signalVars, recoveryVars>>
    /\ UNCHANGED <<scratchVars, rhsVars, runVars, sweepVars, yieldVars>>
    /\ UNCHANGED <<midpoint, mid_sol, grew, fue_ret, lowC0, highC0>>

\* lines 675-678: coral declined; the recursive call passes highC = midpoint and
\* recursion_depth, and lowC takes its default
fue_going_down ==
    /\ pc = "fue_integrated"
    /\ ~(recursion_depth > MaxDepth)
    /\ grew < 0
    /\ highC' = midpoint
    /\ lowC' = DefaultLowC
    /\ recursion_depth' = recursion_depth + 1
    /\ pc' = "fue_called"
    /\ UNCHANGED <<modelVars, presetVars, signalVars, recoveryVars>>
    /\ UNCHANGED <<scratchVars, rhsVars, runVars, sweepVars, yieldVars>>
    /\ UNCHANGED <<midpoint, mid_sol, grew, fue_ret, lowC0, highC0>>

\* lines 679-680: end-of-run cover equals the midpoint
fue_found ==
    /\ pc = "fue_integrated"
    /\ ~(recursion_depth > MaxDepth)
    /\ grew = 0
    /\ fue_ret' = midpoint
    /\ pc' = "fue_returned"
    /\ UNCHANGED <<modelVars, presetVars, signalVars, recoveryVars>>
    /\ UNCHANGED <<scratchVars, rhsVars, runVars, sweepVars, yieldVars>>
    /\ UNCHANGED <<lowC, highC, recursion_depth, midpoint, mid_sol, grew, lowC0, highC0>>

BisectNext ==
    fue_integrate \/ fue_close_enough \/ fue_going_up \/ fue_going_down \/ fue_found

SpecBisect == BisectInit /\ [][BisectNext]_vars

(* Claims about the bisection, checked under SpecBisect *)

BracketWidth == RSub(highC, lowC)

\* C8 as stated: each recursion step halves the bracket, so that from the
\* initial bracket [0.1, 0.7] the bracket of the call at depth d has width
\* 0.6/2^d, and after 10 steps the width is at most 0.6/1024.
C8_BracketHalves ==
    (pc = "fue_called" /\ lowC0 = DefaultLowC /\ highC0 = DefaultHighC) =>
        /\ RMul(BracketWidth, RInt(2 ^ recursion_depth)) = Rat(6, 10)
        /\ recursion_depth = MaxDepth => RLeq(BracketWidth, Rat(6, 10 * 1024))

----------------------------------------------------------------------------
(* get_coral_recovery_time and the callers' test of what it returns.  The  *)
(* reference run is a black box: coralsol is any sequence of len(t) coral  *)
(* values that starts at the low-coral preset's C0L.                       *)

MaxLen == 4

\* line 856: the settling margin added to the index
SettlingMargin == 10

\* the coral values a trajectory takes: below, at and above each threshold
CoralLevels ==
    {Rat(4, 100), Rat(50, 100), Rat(52, 100), Rat(54, 100), Rat(60, 100),
     Rat(70, 100), Rat(80, 100)}

\* lines 843-848: the threshold of the model family
threshold_of(mt) ==
    IF mt = "RB" THEN Rat(5, 10)
    ELSE IF mt = "BM" THEN Rat(54, 100)
    ELSE Rat(7, 10)

Thresholds == {threshold_of(mt) : mt \in ModelTypes}

\* the same test with >= for >
Exceeds_OrEqual(state, high) == RLeq(high, state)

\* line 852: state > high_coral_eq
Exceeds(state, high) == ~RLeq(state, high)

RECURSIVE last_above(_, _, _)
last_above(sol, high, k) ==
    IF k = 0 THEN -1
    ELSE IF Exceeds(sol[k], high) THEN k - 1
    ELSE last_above(sol, high, k - 1)

RECURSIVE first_above(_, _, _)
\* lines 850-854: the loop from entry i (0-based) on, with its break
first_above(sol, high, i) ==
    IF i >= Len(sol) THEN -1
    ELSE IF Exceeds(sol[i + 1], high) THEN i
    ELSE first_above(sol, high, i + 1)

recovery_scan_NoBreak(sol, high) == last_above(sol, high, Len(sol)) + SettlingMargin

\* lines 850-856: the scan and the value returned
recovery_scan(sol, high) == first_above(sol, high, 0) + SettlingMargin

Trajectories ==
    UNION {{sol \in [1 .. len -> CoralLevels] : sol[1] = C0L} : len \in 1 .. MaxLen}

\* the patch counts of the models whose recovery time is asked for
RecoveryPatches == {1, 2}

\* line 831: z.set_mgmt_params(500, 0, 0, 0)
ReferenceClosure == 500

\* lines 973-977: the management parameters of the calling model: never
\* set, or set by set_mgmt_params before the call
CallerMgmt ==
    {[closure_length |-> 0, f |-> 0, m |-> 0, poaching |-> RInt(0)],
     [closure_length |-> MaxCL, f |-> 1, m |-> 1, poaching |-> Rat(1, PoachDen)]}

\* lines 44-82: an initialized model whose recovery time a caller asks for
RecoveryInit ==
    /\ pc = "initialized"
    /\ model_type \in ModelTypes
    /\ n \in RecoveryPatches
    /\ frac_nomove = RInt(1)
    /\ mgmt_strat = "periodic"
    /\ \E mgmt \in CallerMgmt :
        /\ f = mgmt.f
        /\ closure_length = mgmt.closure_length
        /\ m = mgmt.m
        /\ poaching = mgmt.poaching
    /\ kP = build_kP(frac_nomove, n)
    /\ X1 = IF model_type = "RB"
            THEN Repeat(P0, n) \o Repeat(C0L, n) \o Repeat(M0H, n) \o Repeat(M0iH, n)
            ELSE Repeat(P0, n) \o Repeat(C0L, n) \o Repeat(M0H, n)
    /\ X2 = IF model_type = "RB"
            THEN Repeat(P0, n) \o Repeat(C0H, n) \o Repeat(M0L, n) \o Repeat(M0iL, n)
            ELSE Repeat(P0, n) \o Repeat(C0H, n) \o Repeat(M0L, n)
    /\ NoEvaluation
    /\ NoBisection
    /\ NoRecovery
    /\ NoScratch
    /\ NoRhs
    /\ NoRun
    /\ NoSweep
    /\ NoYield

\* lines 826-831: the reference model, Model(self.model_type, self.n, 1,
\* mgmt_strat = 'MPA') initialized with the callers' initial values and
\* configured by set_mgmt_params(500, 0, 0, 0), and the set it is run from
reference_model ==
    [model_type |-> model_type, n |-> n, frac_nomove |-> RInt(1),
     mgmt_strat |-> "MPA",
     closure_length |-> ReferenceClosure, f |-> 0, m |-> 0, poaching |-> RInt(0),
     X1 |-> IF model_type = "RB"
            THEN Repeat(P0, n) \o Repeat(C0L, n) \o Repeat(M0H, n) \o Repeat(M0iH, n)
            ELSE Repeat(P0, n) \o Repeat(C0L, n) \o Repeat(M0H, n),
     IC_set |-> "X1"]

\* lines 821-856: Model.get_coral_recovery_time; the reference model z is local
\* and the calling model's own fields are not written.  z.load_parameters()
\* (line 829) raises UnboundLocalError for an unrecognized model_type.
get_coral_recovery_time ==
    /\ pc = "initialized"
    /\ IF model_type \in RecognizedTypes
       THEN /\ \E sol \in Trajectories :
                  /\ coralsol' = sol
                  /\ high_coral_eq' = threshold_of(model_type)
                  /\ crt' = recovery_scan(sol, threshold_of(model_type))
            /\ z' = reference_model
            /\ pc' = "recovery_returned"
       ELSE /\ pc' = "UnboundLocalError"
            /\ UNCHANGED <<coralsol, high_coral_eq, crt, z>>
    /\ UNCHANGED <<modelVars, presetVars, signalVars, bisectVars, caller_branch>>
    /\ UNCHANGED <<scratchVars, rhsVars, runVars, sweepVars, yieldVars>>

\* lines 687-691 and 140-141: scenario_plot and yield_scenario_plot test crt == -1
scenario_plot_test ==
    /\ pc = "recovery_returned"
    /\ caller_branch' = IF crt = -1 THEN "recovery_time_too_high" ELSE "continues"
    /\ pc' = "scenario_plot_tested"
    /\ UNCHANGED <<modelVars, presetVars, signalVars, bisectVars>>
    /\ UNCHANGED <<scratchVars, rhsVars, runVars, sweepVars, yieldVars>>
    /\ UNCHANGED <<coralsol, high_coral_eq, crt, z>>

\* lines 308-311: time_series tests recov_time == -1 and replaces it by 1
time_series_test ==
    /\ pc = "recovery_returned"
    /\ caller_branch' = IF crt = -1 THEN "recovery_time_too_high" ELSE "continues"
    /\ crt' = IF crt = -1 THEN 1 ELSE crt
    /\ pc' = "time_series_tested"
    /\ UNCHANGED <<modelVars, presetVars, signalVars, bisectVars>>
    /\ UNCHANGED <<scratchVars, rhsVars, runVars, sweepVars, yieldVars>>
    /\ UNCHANGED <<coralsol, high_coral_eq, z>>

RecoveryNext == get_coral_recovery_time \/ scenario_plot_test \/ time_series_test

SpecRecovery == RecoveryInit /\ [][RecoveryNext]_vars

(* Claims about the recovery time, checked under SpecRecovery *)

Crossed(sol, high) == \E k \in 1 .. Len(sol) : Exceeds(sol[k], high)

\* C9 as stated: when no entry of the reference trajectory exceeds the
\* threshold, get_coral_recovery_time returns the sentinel its callers test
\* for, so the callers' 'coral recovery time too high' branch is taken.
C9_SentinelReachesCaller ==
    (pc \in {"scenario_plot_tested", "time_series_tested"}
        /\ ~Crossed(coralsol, high_coral_eq)) =>
        caller_branch = "recovery_time_too_high"

\* C10 as stated: for the same trajectory and any two thresholds h1 <= h2 the
\* value returned with h1 is never larger than the value returned with h2,
\* also when one or both thresholds are never crossed.
C10_MonotonicInThreshold ==
    pc = "recovery_returned" =>
        \A h \in Thresholds :
            /\ RLeq(h, high_coral_eq) => recovery_scan(coralsol, h) <= crt
            /\ RLeq(high_coral_eq, h) => crt <= recovery_scan(coralsol, h)

\* C10 amended: for the same trajectory and thresholds h1 <= h2 of which the
\* higher, h2, is crossed within the horizon, the value returned with h1 is
\* never larger than the value returned with h2; when h2 is never crossed the
\* scan with h2 returns 9, which is below every value k + 10 of a crossing.
C10_MonotonicWhenCrossed ==
    pc = "recovery_returned" =>
        \A h \in Thresholds :
            /\ (RLeq(h, high_coral_eq) /\ Crossed(coralsol, high_coral_eq))
                  => recovery_scan(coralsol, h) <= crt
            /\ (RLeq(high_coral_eq, h) /\ Crossed(coralsol, h))
                  => crt <= recovery_scan(coralsol, h)
            /\ ~Crossed(coralsol, h) => recovery_scan(coralsol, h) = SettlingMargin - 1

\* C10 witness: a trajectory that crosses the lower threshold strictly before
\* the model's own, higher one
C10_Witness ==
    /\ pc = "recovery_returned"
    /\ high_coral_eq = Rat(7, 10)
    /\ Crossed(coralsol, high_coral_eq)
    /\ recovery_scan(coralsol, Rat(5, 10)) < crt
    /\ crt = Len(coralsol) - 1 + SettlingMargin

----------------------------------------------------------------------------
(* load_parameters and the three kernels.  A system_model sm is the record *)
(* of the attributes of the Model object a call receives.                  *)

\* params before load_parameters has run: the attributes do not exist
NoParams == <<>>

\* lines 862-928: the dictionary of a van de Leemput family; the entries
\* ext_C, ext_P, P0, C_HI, M_LO, C_LO, M_HI are read by no kernel
leemput_params(sigma, eta, alpha, fish_growth_rate) ==
    [r |-> Rat(3, 10), i_C |-> Rat(5, 100), i_M |-> Rat(5, 100),
     gamma |-> Rat(8, 10), d |-> Rat(1, 10), g |-> RInt(1),
     s |-> fish_growth_rate, sigma |-> sigma, eta |-> eta, alpha |-> alpha]

\* lines 860-966: the dictionary load_parameters builds for a recognized family
parameters_of(mt, fish_growth_rate) ==
    CASE mt = "vdL" -> leemput_params(Rat(5, 10), RInt(2), Rat(5, 10), fish_growth_rate)
      [] mt = "vdL_MC" -> leemput_params(RInt(0), RInt(0), RInt(2), fish_growth_rate)
      [] mt = "vdL_MP" -> leemput_params(RInt(0), RInt(4), RInt(0), fish_growth_rate)
      [] mt = "vdL_PC" -> leemput_params(Rat(9, 10), RInt(0), RInt(0), fish_growth_rate)
      [] mt = "BM" ->
            [gamma |-> Rat(8, 10), beta |-> RInt(1), alpha |-> RInt(1),
             s |-> fish_growth_rate, r |-> RInt(1), d |-> Rat(44, 100),
             a |-> Rat(1, 10), i_C |-> Rat(5, 100), i_M |-> Rat(5, 100)]
      [] mt = "RB" ->
            [phiC |-> Rat(1, 1000), phiM |-> Rat(1, 10000), rM |-> Rat(5, 10),
             gTC |-> Rat(1, 10), gTV |-> Rat(2, 10), gTI |-> Rat(4, 10),
             rH |-> fish_growth_rate, gamma |-> Rat(4, 10), omega |-> RInt(2),
             dC |-> Rat(5, 100), dI |-> Rat(4, 10), dV |-> Rat(4, 10),
             K |-> RInt(20), Graze |-> Rat(58, 100)]

\* X.reshape(k, n)[b][i]: entry i of block b of the state vector
Block(XX, b, i, nn) == XX[b * nn + i + 1]

RMul3(a, b, c) == RMul(RMul(a, b), c)

\* lines 1078-1079
K(sigma, C) == RAdd(RSub(RInt(1), sigma), RMul(sigma, C))

\* lines 1080-1081
BMK(C) == RSub(RInt(1), RMul(Rat(5, 10), C))

harvest_WithoutF(P, tt, i, sm) ==
    RMul(P, square_signal(tt, sm.closure_length, i, sm.m, sm.n, sm.poaching, sm.mgmt_strat))

\* the harvest term of lines 1055, 1145 and 1160:
\* f * P[i] * square_signal(t, closure_length, i, m, n, poaching, mgmt_strat)
harvest(P, tt, i, sm) ==
    RMul3(RInt(sm.f), P,
          square_signal(tt, sm.closure_length, i, sm.m, sm.n, sm.poaching, sm.mgmt_strat))

\* lines 1155-1166
leemput(XX, tt, i, sm, P_influx) ==
    LET P == Block(XX, 0, i, sm.n)
        C == Block(XX, 1, i, sm.n)
        M == Block(XX, 2, i, sm.n)
        q == sm.par
        free == RSub(RSub(RInt(1), M), C)
        dP == RSub(RAdd(P_influx[i],
                        RMul3(q.s, P, RSub(RInt(1), RDiv(P, K(q.sigma, C))))),
                   harvest(P, tt, i, sm))
        dC == RSub(RMul3(RAdd(q.i_C, RMul(q.r, C)), free,
                         RSub(RInt(1), RMul(q.alpha, M))),
                   RMul(q.d, C))
        dM == RSub(RMul(RAdd(q.i_M, RMul(q.gamma, M)), free),
                   RDiv(RMul3(q.g, M, P), RAdd(RMul3(q.g, q.eta, M), RInt(1))))
    IN <<dP, dC, dM>>

\* lines 1140-1151
blackwood(XX, tt, i, sm, P_influx) ==
    LET P == Block(XX, 0, i, sm.n)
        C == Block(XX, 1, i, sm.n)
        M == Block(XX, 2, i, sm.n)
        q == sm.par
        free == RSub(RSub(RInt(1), M), C)
        dP == RSub(RAdd(P_influx[i],
                        RMul3(q.s, P,
                              RSub(RInt(1), RDiv(P, RMul(q.beta, BMK(C)))))),
                   harvest(P, tt, i, sm))
        dC == RAdd(RSub(RSub(RMul3(q.r, free, C), RMul(q.d, C)), RMul3(q.a, M, C)),
                   RMul3(Rat(5, 10000), q.i_C, free))
        dM == RAdd(RAdd(RSub(RMul3(q.a, M, C),
                             RMul3(RDiv(RMul(q.alpha, P), q.beta), M,
                                   RDiv(RInt(1), RSub(RInt(1), C)))),
                        RMul3(q.gamma, M, free)),
                   RMul3(Rat(75, 10000), q.i_M, free))
    IN <<dP, dC, dM>>

\* lines 1048-1064
rass_briggs(XX, tt, i, sm, P_influx) ==
    LET P == Block(XX, 0, i, sm.n)
        C == Block(XX, 1, i, sm.n)
        Mv == Block(XX, 2, i, sm.n)
        Mi == Block(XX, 3, i, sm.n)
        q == sm.par
        T == RSub(RSub(RSub(RInt(1), C), Mv), Mi)
        overgrowth == RMul(RMul3(q.gamma, q.gTI, Mi), C)
        dP == RSub(RAdd(P_influx[i],
                        RMul3(q.rH, P, RSub(RInt(1), RDiv(P, q.K)))),
                   harvest(P, tt, i, sm))
        dC == RSub(RSub(RAdd(RMul(q.phiC, T), RMul3(q.gTC, T, C)), overgrowth),
                   RMul(q.dC, C))
        dMv == RSub(RSub(RSub(RAdd(RAdd(RMul(q.phiM, T), RMul3(q.rM, T, Mi)),
                                   RMul3(q.gTV, T, Mv)),
                              RMul(q.dV, Mv)),
                         RMul3(P, Mv, q.Graze)),
                    RMul(q.omega, Mv))
        dMi == RSub(RAdd(RAdd(RMul(q.omega, Mv), RMul3(q.gTI, T, Mi)), overgrowth),
                    RMul(q.dI, Mi))
    IN <<dP, dC, dMv, dMi>>

----------------------------------------------------------------------------
(* patch_system: the right-hand side the solver evaluates                  *)

\* lines 992-1040: the kernel patch_system calls for a model_type; the else
\* branch of lines 1035-1040 prints "Bad input, defaulting to
\* Blackwood-Mumby!" and calls blackwood
kernel_of(mt) ==
    CASE mt = "RB" -> "rass_briggs"
      [] mt = "BM" -> "blackwood"
      [] mt \in {"vdL_PC", "vdL_MP", "vdL_MC", "vdL"} -> "leemput"
      [] OTHER -> "blackwood"

RECURSIVE influx_sum_SkipSelf(_, _, _, _)
influx_sum_SkipSelf(XX, i, sm, k) ==
    IF k = 0 THEN RInt(0)
    ELSE RAdd(influx_sum_SkipSelf(XX, i, sm, k - 1),
              IF k - 1 = i THEN RInt(0) ELSE RMul(sm.kP[i][k - 1], XX[k]))

RECURSIVE influx_sum_SkipFirst(_, _, _, _)
\* the same sum without the fish of patch 0
influx_sum_SkipFirst(XX, i, sm, k) ==
    IF k <= 1 THEN RInt(0)
    ELSE RAdd(influx_sum_SkipFirst(XX, i, sm, k - 1), RMul(sm.kP[i][k - 1], XX[k]))

RECURSIVE influx_sum(_, _, _, _)
\* lines 983 and 988-989: P_influx[i] = 0, then += kP[i][j] * X[j] for j < k
influx_sum(XX, i, sm, k) ==
    IF k = 0 THEN RInt(0)
    ELSE RAdd(influx_sum(XX, i, sm, k - 1), RMul(sm.kP[i][k - 1], XX[k]))

P_influx_of(XX, sm) == [i \in 0 .. (sm.n - 1) |-> influx_sum(XX, i, sm, sm.n)]

\* lines 992-1040: results, the list the kernel of the family returns for patch i
kernel_results(XX, tt, i, sm, P_influx) ==
    CASE kernel_of(sm.model_type) = "rass_briggs" -> rass_briggs(XX, tt, i, sm, P_influx)
      [] kernel_of(sm.model_type) = "leemput" -> leemput(XX, tt, i, sm, P_influx)
      [] kernel_of(sm.model_type) = "blackwood" -> blackwood(XX, tt, i, sm, P_influx)

\* lines 985-1040: the loop over the patches; entry i is the list results of patch i
all_results(XX, tt, sm) ==
    LET P_influx == P_influx_of(XX, sm)
    IN [i \in 0 .. (sm.n - 1) |-> kernel_results(XX, tt, i, sm, P_influx)]

scratch_written_FirstPatchOnly(old, results, c, nn) ==
    [i \in 0 .. (nn - 1) |-> IF i = 0 THEN results[i][c] ELSE old[i]]

\* lines 995-1040: system_model.dXs[i] = results[c - 1] for every patch i
scratch_written(old, results, c, nn) == [i \in 0 .. (nn - 1) |-> results[i][c]]

\* the same with the patches in reverse order
AsBlock_Reversed(arr, nn) == [k \in 1 .. nn |-> arr[nn - k]]

\* an array as the block of a state vector
AsBlock(arr, nn) == [k \in 1 .. nn |-> arr[k - 1]]

\* the attributes of the Model object as the record the kernels read
Self ==
    [model_type |-> model_type, n |-> n, kP |-> kP, f |-> f,
     closure_length |-> closure_length, m |-> m, poaching |-> poaching,
     mgmt_strat |-> mgmt_strat, par |-> params]

\* the state vectors patch_system is called with: the two presets, and the
\* low-coral preset with fish densities that differ from patch to patch
RampX1 == [k \in 1 .. Len(X1) |-> IF k <= n THEN Rat(k, 10) ELSE X1[k]]
StateVectors == {X1, X2, RampX1}

\* the times patch_system is called with: with closure_length = 1 the first
\* closed patch is patch 0 at time 0 and patch 1 % n at time 1
RhsTimes == {0, 1}

\* lines 982-1046: what one call patch_system(XX, tt, self) that returns does
\* to the model and hands back
call_patch_system(XX, tt) ==
    \E results \in {all_results(XX, tt, Self)} :
        /\ X' = XX
        /\ t' = tt
        /\ kernel' = kernel_of(model_type)
        /\ signal' = [i \in Patches |->
                square_signal(tt, closure_length, i, m, n, poaching, mgmt_strat)]
        /\ path' = [i \in Patches |->
                square_signal_path(tt, closure_length, i, m, n, mgmt_strat)]
        /\ dPs' = scratch_written(dPs, results, 1, n)
        /\ dCs' = scratch_written(dCs, results, 2, n)
        /\ IF model_type = "RB"
           THEN /\ dMvs' = scratch_written(dMvs, results, 3, n)
                /\ dMis' = scratch_written(dMis, results, 4, n)
                /\ dMs' = dMs
                /\ rhs_ret' = AsBlock(dPs', n) \o AsBlock(dCs', n)
                                \o AsBlock(dMvs', n) \o AsBlock(dMis', n)
           ELSE /\ dMs' = scratch_written(dMs, results, 3, n)
                /\ UNCHANGED <<dMvs, dMis>>
                /\ rhs_ret' = AsBlock(dPs', n) \o AsBlock(dCs', n) \o AsBlock(dMs', n)

\* the same if the returned array were the scratch memory itself: what an
\* earlier call returned shows what the latest call wrote
held_after_Aliased(h, written) ==
    IF h = <<>> THEN h
    ELSE [h EXCEPT !.ret = written, !.overwritten = @ \/ written # h.ret]

\* lines 1043-1046: np.concatenate returns a new array, so an array returned
\* earlier keeps its entries when a later call overwrites the scratch arrays
held_after(h, written) ==
    IF h = <<>> THEN h
    ELSE [h EXCEPT !.overwritten = @ \/ written # h.ret]

\* lines 982-1046: one call patch_system(X, t, system_model).  A kernel reads
\* its parameters as attributes of system_model; before load_parameters has
\* set them the first read raises AttributeError and nothing is written.
patch_system ==
    /\ pc \in {"initialized", "loaded", "evaluated"}
    /\ \E XX \in StateVectors, tt \in RhsTimes :
        IF params = NoParams
        THEN /\ pc' = "AttributeError"
             /\ kernel' = kernel_of(model_type)
             /\ UNCHANGED <<scratchVars, X, rhs_ret, held, signalVars>>
        ELSE /\ call_patch_system(XX, tt)
             /\ held' = held_after(held, rhs_ret')
             /\ pc' = "evaluated"
    /\ UNCHANGED <<modelVars, presetVars, bisectVars, recoveryVars, params, runVars>>
    /\ UNCHANGED <<sweepVars, yieldVars>>

\* the growth rates load_parameters is called with
GrowthRates == {RInt(1)}

\* lines 860-970: load_parameters.  For a model_type none of the branches
\* names, params is never bound and line 968 raises UnboundLocalError.
load_parameters ==
    /\ pc = "initialized"
    /\ params = NoParams
    /\ IF model_type \in RecognizedTypes
       THEN /\ \E fish_growth_rate \in GrowthRates :
                params' = parameters_of(model_type, fish_growth_rate)
            /\ pc' = "loaded"
       ELSE /\ pc' = "UnboundLocalError"
            /\ UNCHANGED params
    /\ UNCHANGED <<modelVars, presetVars, signalVars, bisectVars, recoveryVars>>
    /\ UNCHANGED <<scratchVars, X, kernel, rhs_ret, held, runVars, sweepVars, yieldVars>>

\* the configurations the right-hand side is evaluated under
RhsFracs == {Rat(1, FracDen), RInt(1)}
RhsPoaching == {RInt(0), Rat(1, PoachDen)}

\* lines 44-53, 57-108 and 973-977: a model constructed, initialized by
\* initialize_patch_model and configured by set_mgmt_params
ConfiguredModel ==
    /\ n \in 1 .. MaxN
    /\ frac_nomove \in RhsFracs
    /\ mgmt_strat \in Strategies
    /\ f \in FishingValues
    /\ closure_length = 1
    /\ m \in 0 .. n
    /\ poaching \in RhsPoaching
    /\ kP = build_kP(frac_nomove, n)
    /\ \E fill \in EmptyFill :
        /\ dPs = np_empty(n, fill)
        /\ dCs = np_empty(n, fill)
        /\ IF model_type = "RB"
           THEN /\ X1 = Repeat(P0, n) \o Repeat(C0L, n) \o Repeat(M0H, n) \o Repeat(M0iH, n)
                /\ X2 = Repeat(P0, n) \o Repeat(C0H, n) \o Repeat(M0L, n) \o Repeat(M0iL, n)
                /\ dMvs = np_empty(n, fill) /\ dMis = np_empty(n, fill) /\ dMs = <<>>
           ELSE /\ X1 = Repeat(P0, n) \o Repeat(C0L, n) \o Repeat(M0H, n)
                /\ X2 = Repeat(P0, n) \o Repeat(C0H, n) \o Repeat(M0L, n)
                /\ dMs = np_empty(n, fill) /\ dMvs = <<>> /\ dMis = <<>>
    /\ NoEvaluation
    /\ NoBisection
    /\ NoRecovery
    /\ NoRun
    /\ NoSweep
    /\ NoYield

PatchInit ==
    /\ pc = "initialized"
    /\ model_type \in ModelTypes
    /\ ConfiguredModel
    /\ NoRhs

PatchNext == load_parameters \/ patch_system

SpecPatch == PatchInit /\ [][PatchNext]_vars

(* Claims about one call of patch_system, checked under SpecPatch *)

\* the attributes of the Model object other than the scratch arrays
ModelAttributes == <<modelVars, presetVars, params>>

\* the scratch arrays hold what the kernels return for (X, t), patch by patch
ScratchHolds ==
    \E results \in {all_results(X, t, Self)} :
        /\ \A i \in Patches : dPs[i] = results[i][1] /\ dCs[i] = results[i][2]
        /\ IF model_type = "RB"
           THEN \A i \in Patches : dMvs[i] = results[i][3] /\ dMis[i] = results[i][4]
           ELSE \A i \in Patches : dMs[i] = results[i][3]

----------------------------------------------------------------------------
(* scenario_plot: the sweep over m, dispatched by joblib's Parallel.       *)
(* Parallel(n_jobs = 3) without a backend argument runs the calls in       *)
(* worker processes: the arguments of a call, self among them, are pickled *)
(* by the parent and unpickled in the worker, so a call works on a copy of *)
(* the Model object in the worker's address space.  Calls that travel in   *)
(* one batch are unpickled together and share their copy; a worker runs    *)
(* them one after the other.                                               *)

\* line 742: n_jobs
NJobs == 3

\* the right-hand-side evaluations of one integration that are modelled
MaxEvals == 2

Workers == 1 .. NJobs

NoObject == <<>>

ObjectOf_Shared(w) == 0

\* the address space holding the Model object a call in worker w works on
ObjectOf(w) == w

\* the periods scenario_plot sweeps, multiples of n so that period / n is whole
SweepPeriods == {n, n * MaxCL}

\* lines 44-53 and 704: an initialized model whose scenario_plot has reached
\* the dispatch of line 742 for one period
SweepInit ==
    /\ pc = "dispatching"
    /\ model_type = "vdL"
    /\ n \in 1 .. MaxN
    /\ frac_nomove = RInt(1)
    /\ mgmt_strat = "periodic"
    /\ f = 0
    /\ closure_length = 0
    /\ m = 0
    /\ poaching \in RhsPoaching
    /\ kP = build_kP(frac_nomove, n)
    /\ X1 = Repeat(P0, n) \o Repeat(C0L, n) \o Repeat(M0H, n)
    /\ X2 = Repeat(P0, n) \o Repeat(C0H, n) \o Repeat(M0L, n)
    /\ NoEvaluation
    /\ NoBisection
    /\ NoRecovery
    /\ NoScratch
    /\ NoRhs
    /\ NoRun
    /\ NoYield
    /\ period \in SweepPeriods
    /\ fishing_intensity = 1
    /\ task_state = [k \in Patches |-> "pending"]
    /\ w_task = [w \in Workers |-> -1]
    /\ w_pc = [w \in Workers |-> "idle"]
    /\ w_evals = [w \in Workers |-> 0]
    /\ objs = [o \in 0 .. NJobs |->
                IF o = 0
                THEN [closure_length |-> RInt(closure_length), f |-> f, m |-> m,
                      poaching |-> poaching, buf |-> -1]
                ELSE NoObject]
    /\ observed = [k \in Patches |-> {}]
    /\ seen_buf = [k \in Patches |-> {}]
    /\ res = [k \in Patches |-> -1]
    /\ avg = <<>>

\* the management parameters of an object, as square_signal is called with them
MgmtOf(obj) ==
    [closure_length |-> obj.closure_length, f |-> obj.f, m |-> obj.m,
     poaching |-> obj.poaching]

\* line 742: Parallel hands the next call, in the order of range(self.n), to
\* an idle worker.  The worker unpickles the arguments into a fresh copy of
\* the parent's object, or, for a call of the batch it is already working
\* on, keeps the copy it has.
sweep_dispatch ==
    \E w \in Workers, k \in Patches :
        /\ w_pc[w] = "idle"
        /\ task_state[k] = "pending"
        /\ \A j \in Patches : j < k => task_state[j] # "pending"
        /\ task_state' = [task_state EXCEPT ![k] = "running"]
        /\ w_task' = [w_task EXCEPT ![w] = k]
        /\ w_pc' = [w_pc EXCEPT ![w] = "called"]
        /\ \E copy \in {objs[0]} \cup ({objs[ObjectOf(w)]} \ {NoObject}) :
                objs' = [objs EXCEPT ![ObjectOf(w)] = copy]
        /\ UNCHANGED <<avg, period, fishing_intensity, w_evals, observed, seen_buf, res>>
        /\ UNCHANGED <<pc, modelVars, presetVars, signalVars, bisectVars, recoveryVars>>
        /\ UNCHANGED <<scratchVars, rhsVars, runVars, yieldVars>>

\* lines 710-711 with 973-977: the two calls
\* self.set_mgmt_params(period / self.n, fishing_intensity, m, self.poaching)
sweep_set_mgmt_params ==
    \E w \in Workers :
        /\ w_pc[w] \in {"called", "set_once"}
        /\ objs' = [objs EXCEPT ![ObjectOf(w)] =
                        [closure_length |-> Rat(period, n), f |-> fishing_intensity,
                         m |-> w_task[w], poaching |-> objs[ObjectOf(w)].poaching,
                         buf |-> objs[ObjectOf(w)].buf]]
        /\ w_pc' = [w_pc EXCEPT ![w] = IF w_pc[w] = "called" THEN "set_once" ELSE "set_twice"]
        /\ UNCHANGED <<avg, period, fishing_intensity, task_state, w_task, w_evals,
                       observed, seen_buf, res>>
        /\ UNCHANGED <<pc, modelVars, presetVars, signalVars, bisectVars, recoveryVars>>
        /\ UNCHANGED <<scratchVars, rhsVars, runVars, yieldVars>>

\* lines 712 and 985-1040: the solver calls patch_system, whose loop reads the
\* management parameters of the object for square_signal and writes the
\* derivatives of this run into the scratch arrays of the object
sweep_rhs_write ==
    \E w \in Workers :
        /\ w_pc[w] \in {"set_twice", "returned"}
        /\ w_evals[w] < MaxEvals
        /\ observed' = [observed EXCEPT ![w_task[w]] = @ \cup {MgmtOf(objs[ObjectOf(w)])}]
        /\ objs' = [objs EXCEPT ![ObjectOf(w)].buf = w_task[w]]
        /\ w_pc' = [w_pc EXCEPT ![w] = "written"]
        /\ UNCHANGED <<avg, period, fishing_intensity, task_state, w_task, w_evals, seen_buf, res>>
        /\ UNCHANGED <<pc, modelVars, presetVars, signalVars, bisectVars, recoveryVars>>
        /\ UNCHANGED <<scratchVars, rhsVars, runVars, yieldVars>>

\* lines 1043-1046: patch_system concatenates what the scratch arrays of the
\* object hold and returns it to the solver
sweep_rhs_return ==
    \E w \in Workers :
        /\ w_pc[w] = "written"
        /\ seen_buf' = [seen_buf EXCEPT ![w_task[w]] = @ \cup {objs[ObjectOf(w)].buf}]
        /\ w_evals' = [w_evals EXCEPT ![w] = @ + 1]
        /\ w_pc' = [w_pc EXCEPT ![w] = "returned"]
        /\ UNCHANGED <<avg, period, fishing_intensity, task_state, w_task, objs, observed, res>>
        /\ UNCHANGED <<pc, modelVars, presetVars, signalVars, bisectVars, recoveryVars>>
        /\ UNCHANGED <<scratchVars, rhsVars, runVars, yieldVars>>

\* lines 713-727: the integration is over; the call returns [m, avg] with its
\* argument m, and the worker is free again
sweep_finish ==
    \E w \in Workers :
        /\ w_pc[w] = "returned"
        /\ w_evals[w] = MaxEvals
        /\ res' = [res EXCEPT ![w_task[w]] = w_task[w]]
        /\ task_state' = [task_state EXCEPT ![w_task[w]] = "done"]
        /\ w_task' = [w_task EXCEPT ![w] = -1]
        /\ w_evals' = [w_evals EXCEPT ![w] = 0]
        /\ w_pc' = [w_pc EXCEPT ![w] = "idle"]
        /\ UNCHANGED <<avg, period, fishing_intensity, objs, observed, seen_buf>>
        /\ UNCHANGED <<pc, modelVars, presetVars, signalVars, bisectVars, recoveryVars>>
        /\ UNCHANGED <<scratchVars, rhsVars, runVars, yieldVars>>

SweepNext ==
    \/ sweep_dispatch
    \/ sweep_set_mgmt_params
    \/ sweep_rhs_write
    \/ sweep_rhs_return
    \/ sweep_finish

SpecSweep == SweepInit /\ [][SweepNext]_vars

(* Claims about the sweep, checked under SpecSweep *)

\* the management parameters loop_over_m_vals sets for the run with m = k
OwnMgmt(k) ==
    [closure_length |-> Rat(period, n), f |-> fishing_intensity, m |-> k,
     poaching |-> poaching]

----------------------------------------------------------------------------
(* run_model: one integration.  The solver odeint is a library; the model  *)
(* lets it evaluate patch_system at the initial state and the first output *)
(* time and advance by one explicit step of one time unit, so a trajectory *)
(* has the rows of the output times t[0] and t[0] + 1.  A solver that      *)
(* gives up prints a warning and hands back its array all the same, the    *)
(* rows it did not reach holding whatever the memory held.                 *)

\* the solver's step from the row XX with the derivative dX
odeint_step(XX, dX) == [k \in 1 .. Len(XX) |-> RAdd(XX[k], dX[k])]

SolverOutcomes == {"success", "failed"}

\* the rows odeint hands back
odeint_rows(ic, dX, status, fill) ==
    IF status = "success"
    THEN <<ic, odeint_step(ic, dX)>>
    ELSE <<ic, [k \in 1 .. Len(ic) |-> fill]>>

\* lines 112-114: run_model(IC_set, t); whatever odeint hands back is returned
run_model ==
    /\ pc \in {"loaded", "configured", "run_returned"}
    /\ kP # <<>>
    /\ params # NoParams
    /\ \E ic \in {X1, X2}, t0 \in RhsTimes :
        /\ call_patch_system(ic, t0)
        /\ IC_set' = ic
        /\ \E status \in SolverOutcomes, fill \in EmptyFill :
            /\ status = "success" => fill = RInt(0)
            /\ solver_status' = status
            /\ run_sol' = odeint_rows(ic, rhs_ret', status, fill)
        /\ run_ret' = run_sol'
        /\ pc' = "run_returned"
    /\ UNCHANGED <<modelVars, presetVars, bisectVars, recoveryVars, params, held>>
    /\ UNCHANGED <<sweepVars, yieldVars>>

\* lines 44-53, 57-108, 860-970 and 973-977: a model of a recognized family,
\* initialized, with its parameters loaded and its management parameters set
RunInit ==
    /\ pc = "loaded"
    /\ model_type \in RecognizedTypes
    /\ ConfiguredModel
    /\ \E fish_growth_rate \in GrowthRates :
            params = parameters_of(model_type, fish_growth_rate)
    /\ X = <<>>
    /\ kernel = "none"
    /\ rhs_ret = <<>>
    /\ held = <<>>

RunNext == run_model

SpecRun == RunInit /\ [][RunNext]_vars

(* Claims about trajectories, checked under SpecRun *)

\* the state of patch i in a row of a trajectory of nn patches: its entry in
\* every block
PatchState(row, i, nn) == [b \in 0 .. ((Len(row) \div nn) - 1) |-> Block(row, b, i, nn)]

RunSucceeded == pc = "run_returned" /\ solver_status = "success"

\* the setting of C13: van de Leemput with all feedbacks, four patches, no
\* dispersal; the presets start every patch from the same values
FourIsolatedPatches ==
    RunSucceeded /\ model_type = "vdL" /\ n = 4 /\ frac_nomove = RInt(1)

AllPatchesIdentical ==
    \A r \in 1 .. Len(run_sol) : \A i \in Patches, j \in Patches :
        PatchState(run_sol[r], i, n) = PatchState(run_sol[r], j, n)

SinglePatch ==
    [Self EXCEPT !.n = 1, !.m = 1, !.mgmt_strat = "MPA",
                 !.kP = build_kP(frac_nomove, 1)]

\* the rows of the single-patch run from the initial values of one patch
single_patch_run(ic1, t0) ==
    \* the blocks of a one-patch state vector are its entries
    LET results == all_results(ic1, t0, SinglePatch)[0]
    IN  <<ic1, odeint_step(ic1, results)>>

\* the initial values of patch i as a one-patch state vector
OnePatchVector(row, i, nn) == [b \in 1 .. (Len(row) \div nn) |-> Block(row, b - 1, i, nn)]

\* C14: under the static strategy with m = n, from the presets (identical
\* values in every patch), the state of every patch, its coral cover in
\* particular, equals at every output time the state of the single-patch run
\* of the same family from the same values harvested at the poaching rate.
C14_AllClosedIsSinglePatch ==
    (RunSucceeded /\ mgmt_strat = "MPA" /\ m = n) =>
        \E single \in {single_patch_run(OnePatchVector(IC_set, 0, n), t)} :
            \A r \in 1 .. Len(run_sol) : \A i \in Patches :
                OnePatchVector(run_sol[r], i, n) = single[r]

\* several patches that exchange fish are all closed, fished and poached,
\* and the state has moved
C14_Witness ==
    /\ RunSucceeded /\ mgmt_strat = "MPA" /\ m = n
    /\ n > 1 /\ frac_nomove # RInt(1) /\ f = 1 /\ poaching # RInt(0)
    /\ run_sol[2] # run_sol[1]
    /\ \A i \in Patches : OnePatchVector(run_sol[2], i, n) = OnePatchVector(run_sol[2], 0, n)

\* C17 as stated: when the solver reports that it could not produce the
\* trajectory, run_model ends in IntegrationFailure and returns no array.
C17_FailureIsReported ==
    solver_status = "failed" => (pc = "IntegrationFailure" /\ run_ret = <<>>)

(* A claim about the dispatch of patch_system, checked under SpecPatch *)

\* patch_system has been called and has reached the call of a kernel
KernelEntered == pc \in {"evaluated", "AttributeError"}

\* C15 as stated: for a model_type that is none of the six recognized
\* families a call of patch_system ends in a configuration error and enters
\* no kernel; the Blackwood-Mumby kernel is entered for 'BM' only.
C15_UnrecognizedRejected ==
    /\ (KernelEntered /\ model_type \notin RecognizedTypes) =>
            (pc = "ConfigurationError" /\ kernel = "none")
    /\ kernel = "blackwood" => model_type = "BM"

----------------------------------------------------------------------------
(* The way from the constructor to run_model, with arguments of any value  *)

\* the values of frac_nomove a caller may pass, inside and outside [0, 1]
AnyFracs == {Rat(-1, FracDen), RInt(0), RInt(1), Rat(FracDen + 1, FracDen)}

\* lines 44-53: Model.__init__ stores its arguments as they are
ConfigInit ==
    /\ pc = "constructed"
    /\ model_type \in {"vdL", "RB"}
    /\ n \in (-1) .. MaxN
    /\ frac_nomove \in AnyFracs
    /\ mgmt_strat = "periodic"
    /\ f = 0
    /\ closure_length = 0
    /\ m = 0
    /\ poaching = RInt(0)
    /\ NoPresets
    /\ NoEvaluation
    /\ NoBisection
    /\ NoRecovery
    /\ NoScratch
    /\ NoRhs
    /\ NoRun
    /\ NoSweep
    /\ NoYield

\* lines 64-66 and 88-90: with n = 0 the quotient 1/(self.n) raises
\* ZeroDivisionError; with n < 0 np.empty((self.n, self.n)) raises ValueError
\* (negative dimensions); nothing has been set on the object by then
initialize_patch_model_raises ==
    /\ pc = "constructed"
    /\ n < 1
    /\ pc' = IF n = 0 THEN "ZeroDivisionError" ELSE "ValueError"
    /\ UNCHANGED <<modelVars, presetVars, signalVars, bisectVars, recoveryVars>>
    /\ UNCHANGED <<scratchVars, rhsVars, runVars, sweepVars, yieldVars>>

\* lines 973-977: Model.set_mgmt_params on the loaded model, m of any value
set_mgmt_params_any ==
    /\ pc = "loaded"
    /\ set_mgmt_params_from({1}, FishingValues, (-1) .. (n + 1), RhsPoaching)

ConfigNext ==
    \/ initialize_patch_model
    \/ RB_initialize_patch_model
    \/ initialize_patch_model_raises
    \/ load_parameters
    \/ set_mgmt_params_any
    \/ run_model

SpecConfig == ConfigInit /\ [][ConfigNext]_vars

(* A claim about validation, checked under SpecConfig *)

ValidConfiguration ==
    /\ n >= 1
    /\ 0 <= m /\ m <= n
    /\ RLeq(RInt(0), frac_nomove) /\ RLeq(frac_nomove, RInt(1))

\* C16 as stated: a configuration with n < 1, m outside [0, n] or
\* frac_nomove outside [0, 1] ends in an error before integration; run_model
\* is reached, and returns, with valid configurations only.
C16_InvalidRejected == pc = "run_returned" => ValidConfiguration

----------------------------------------------------------------------------
(* A claim about the result of the bisection, checked under SpecBisect     *)

\* lines 665-667: the call that returned was the one whose depth exceeded
\* the bound (recursion_depth is the depth of the returning call)
DepthExit == pc = "fue_returned" /\ recursion_depth > MaxDepth

\* lines 679-680: the call that returned found coral cover at the midpoint
ExactExit == pc = "fue_returned" /\ ~(recursion_depth > MaxDepth)

\* what the caller holds: the returned object and the marks it carries
FlaggedApproximate(ret) == "approximate" \in DOMAIN ret

\* C18 as stated: a value returned because the depth bound was exceeded is
\* flagged as approximate, a value returned because the end-of-run cover
\* equalled the midpoint is not.
C18_DepthExitFlagged ==
    /\ DepthExit => FlaggedApproximate(fue_ret)
    /\ ExactExit => ~FlaggedApproximate(fue_ret)

----------------------------------------------------------------------------
(* A claim about the rotation of the closure window, checked under         *)
(* SpecSignal                                                              *)

\* lines 1087-1093: the forcing was evaluated under the periodic strategy
\* with a positive closure length
PeriodicEvaluated ==
    pc = "evaluated" /\ mgmt_strat = "periodic" /\ closure_length > 0

\* line 1091: the slot of the cycle that time tt falls in
SlotOf(tt) == (tt \div closure_length) % n

\* C19: under the periodic strategy with closure_length > 0 the schedule has
\* period n*closure_length: every patch's multiplier at t + n*closure_length
\* equals the one at t; the window start is the number of whole closure
\* lengths elapsed, modulo n, so it runs through 0, 1, ..., n-1 in that order
\* and advances by exactly one patch every closure_length time units.
C19_ScheduleCycles ==
    PeriodicEvaluated =>
        /\ \A i \in Patches :
            square_signal(t + n * closure_length, closure_length, i, m, n,
                          poaching, mgmt_strat) = signal[i]
        /\ SignalStart(t, closure_length, n) = SlotOf(t)
        /\ SignalStart(t, closure_length, n) \in 0 .. n - 1
        /\ SignalStart(t + closure_length, closure_length, n) =
                (SignalStart(t, closure_length, n) + 1) % n
        /\ t < closure_length => SignalStart(t, closure_length, n) = 0

\* a rotating window in its second cycle, inside a slot, on its last patch,
\* with open and closed patches side by side
C19_Witness ==
    /\ PeriodicEvaluated
    /\ n >= 3 /\ 0 < m /\ m < n
    /\ closure_length >= 2
    /\ t >= n * closure_length
    /\ t % closure_length # 0
    /\ SignalStart(t, closure_length, n) = n - 1
    /\ \E i, j \in Patches : signal[i] # signal[j]

----------------------------------------------------------------------------
(* fishing_yield_from_history                                              *)

\* the spacing of the output times: t[k] = k*h (h = 1: np.arange; h = 2
\* stands for any grid whose points are not their own indices, such as
\* np.linspace(0, yrs, yrs) at line 1188)
GridSteps == {1, 2}

\* the recorded fish densities of the chosen patch, sol[:, j]
FishLevels == {Rat(1, 2), RInt(1)}

Histories == [1 .. MaxLen -> FishLevels]

\* lines 44-53, 57-82, 973-977 and 112-114: a configured model that has
\* been integrated over the output times
YieldInit ==
    /\ pc = "yield_called"
    /\ model_type = "vdL"
    /\ n \in 1 .. MaxN
    /\ frac_nomove = RInt(1)
    /\ mgmt_strat \in Strategies
    /\ f \in FishingValues
    /\ closure_length \in 1 .. MaxCL
    /\ m \in 0 .. n
    /\ poaching \in RhsPoaching
    /\ \E hh \in GridSteps : hist_t = [k \in 1 .. MaxLen |-> (k - 1) * hh]
    /\ hist_P \in Histories
    /\ yield_j = 0
    /\ yield_strat = "none"
    /\ fishing_yield = <<>>
    /\ NoPresets
    /\ NoEvaluation
    /\ NoBisection
    /\ NoRecovery
    /\ NoScratch
    /\ NoRhs
    /\ NoRun
    /\ NoSweep

\* lines 118-134: element year of the result is P[year]*self.f times
\* square_signal at time year (the loop index) under the argument strat
yield_loop(j, tt, P, strat) ==
    [year \in 1 .. Len(tt) |->
        RMul3(P[year], RInt(f),
              square_signal(year - 1, closure_length, j, m, n, poaching, strat))]

\* lines 116-134: Model.fishing_yield_from_history(j, t, P, strat)
fishing_yield_from_history(j, strat) ==
    /\ pc \in {"yield_called", "yield_returned"}
    /\ fishing_yield' = yield_loop(j, hist_t, hist_P, strat)
    /\ yield_j' = j
    /\ yield_strat' = strat
    /\ pc' = "yield_returned"
    /\ UNCHANGED <<hist_t, hist_P>>
    /\ UNCHANGED <<modelVars, presetVars, signalVars, bisectVars, recoveryVars>>
    /\ UNCHANGED <<scratchVars, rhsVars, runVars, sweepVars>>

\* lines 170 and 302: the callers that leave strat at its default 'periodic'
yield_of_patch == \E j \in Patches : fishing_yield_from_history(j, "periodic")

\* line 260: the caller that passes 'MPA'
yield_of_MPA == \E j \in Patches : fishing_yield_from_history(j, "MPA")

YieldNext == yield_of_patch \/ yield_of_MPA

SpecYield == YieldInit /\ [][YieldNext]_vars

(* A claim about the yield, checked under SpecYield *)

\* C20 as stated: the result has the length of t, and its k-th element is
\* P[k] * f * the multiplier the integration applies to patch j at the
\* output time t[k] under the model's own management strategy, which is the
\* harvest term of the kernels.
C20_YieldAtOutputTimes ==
    pc = "yield_returned" =>
        /\ Len(fishing_yield) = Len(hist_t)
        /\ \A k \in 1 .. Len(hist_t) :
            fishing_yield[k] = harvest(hist_P[k], hist_t[k], yield_j, Self)

----------------------------------------------------------------------------
(* Claims about the closed window of the periodic strategy, checked under  *)
(* SpecSignal                                                              *)

\* lines 1108-1111: the patches whose evaluation reached a closed return
ClosedNow == {i \in Patches : path[i] \in ClosedPaths}

\* the m consecutive indices from start on, taken modulo n
WindowFrom(start) == {(start + k) % n : k \in 0 .. m - 1}

\* (1 - (m/n)*poaching)/(1 - m/n) brought to the common denominator n
OpenMultiplier == RDiv(RSub(RInt(n), RMul(RInt(m), poaching)), RInt(n - m))

\* C21: under the periodic strategy with closure_length > 0 and 0 <= m <= n
\* the patches that return poaching are exactly the m consecutive indices
\* start, ..., start+m-1 modulo n, with start = floor((t mod
\* (n*closure_length))/closure_length) in 0..n-1; the wrapping and the
\* non-wrapping branch both close exactly m patches, and every other patch
\* returns (1 - (m/n)*poaching)/(1 - m/n).
C21_WindowIsMConsecutive ==
    (PeriodicEvaluated /\ 0 <= m /\ m <= n) =>
        \E start \in {(t % (n * closure_length)) \div closure_length} :
            /\ start \in 0 .. n - 1
            /\ start = SignalStart(t, closure_length, n)
            /\ ClosedNow = WindowFrom(start)
            /\ Cardinality(ClosedNow) = m
            /\ \A i \in Patches :
                /\ i \in ClosedNow => signal[i] = poaching
                /\ i \notin ClosedNow => signal[i] = OpenMultiplier
                /\ path[i] = "periodic_closed_wrap" => start + m - 1 >= n

\* a window that wraps past the last patch, closed on both sides of the
\* wrap, with open patches whose multiplier differs from the closed one
C21_Witness ==
    /\ PeriodicEvaluated
    /\ 1 < m /\ m < n
    /\ SignalStart(t, closure_length, n) + m - 1 >= n
    /\ \E i, j \in Patches :
        /\ i < SignalStart(t, closure_length, n)
        /\ j >= SignalStart(t, closure_length, n)
        /\ path[i] = "periodic_closed_wrap"
        /\ path[j] = "periodic_closed_wrap"
    /\ \E i \in Patches : path[i] = "periodic_open" /\ signal[i] # poaching

----------------------------------------------------------------------------
(* Claims about the steps of the bisection, checked under SpecBisect       *)

\* the coral compartment of a state vector: indices n..2n-1, counted from 0
CoralBlock == {i + 1 : i \in n .. 2 * n - 1}

\* C22 as stated: for every n >= 1 what is compared with the midpoint is
\* the end-of-run coral cover of a patch, an entry of the coral compartment
\* of the final state vector; if it is greater than the midpoint the next
\* bracket's lower bound is the midpoint, if smaller the upper bound is.
C22_CoralCompared ==
    /\ pc = "fue_integrated" =>
        \E i \in CoralBlock : grew = Sgn(RSub(mid_sol[i], midpoint))
    /\ (pc = "fue_called" /\ recursion_depth > 0) =>
        \E i \in CoralBlock :
            /\ RLeq(midpoint, mid_sol[i]) /\ mid_sol[i] # midpoint => lowC = midpoint
            /\ RLeq(mid_sol[i], midpoint) /\ mid_sol[i] # midpoint => highC = midpoint

\* every recursive call was made by one bracket update
BracketUpdates == recursion_depth

\* C23 as stated, its bounds: from recursion_depth = 0 the call recurses up
\* to the fixed depth 10, performs at most 10 bracket updates, and what it
\* returns is the last midpoint.
C23_WithinTenUpdates ==
    /\ recursion_depth <= MaxDepth
    /\ BracketUpdates <= MaxDepth
    /\ pc = "fue_returned" => fue_ret = midpoint

\* lowC0 <= x <= highC0
InCallerBracket(x) == RLeq(lowC0, x) /\ RLeq(x, highC0)

\* C30 as stated: for every caller-supplied bracket lowC < highC and every
\* sequence of outcomes, every midpoint evaluated, and the value finally
\* returned, lies within the caller's initial bracket [lowC, highC].
C30_StaysInCallerBracket ==
    /\ pc \in {"fue_integrated", "fue_returned"} => InCallerBracket(midpoint)
    /\ pc = "fue_returned" => InCallerBracket(fue_ret)

----------------------------------------------------------------------------
(* A claim about the recovery time, checked under SpecRecovery             *)

\* x > h on fractions, by cross-multiplication
StrictlyAbove(x, h) == x.num * h.den > h.num * x.den

\* the thresholds of the families, in hundredths
FamilyThreshold ==
    IF model_type = "RB" THEN Rat(50, 100)
    ELSE IF model_type = "BM" THEN Rat(54, 100)
    ELSE Rat(70, 100)

\* the caller's management parameters
CallerParams == <<closure_length, f, m, poaching, mgmt_strat, frac_nomove>>

\* C24: when some entry of the reference trajectory strictly exceeds the
\* family threshold (0.5 for 'RB', 0.54 for 'BM', 0.7 otherwise) the value
\* returned is k + 10 for the smallest index k with trajectory[k] above the
\* threshold; the reference run is that of a fresh model with frac_nomove = 1,
\* f = 0, m = 0, poaching = 0 started from the low-coral preset X1; the
\* calling model's own management parameters are left unchanged.
C24_FirstCrossingPlusTen ==
    /\ [](pc = "recovery_returned" =>
            /\ high_coral_eq = FamilyThreshold
            /\ (\E j \in 1 .. Len(coralsol) : StrictlyAbove(coralsol[j], FamilyThreshold))
                => \E k \in 0 .. Len(coralsol) - 1 :
                    /\ crt = k + SettlingMargin
                    /\ StrictlyAbove(coralsol[k + 1], FamilyThreshold)
                    /\ \A j \in 0 .. k - 1 :
                         ~StrictlyAbove(coralsol[j + 1], FamilyThreshold)
            /\ z.frac_nomove = RInt(1) /\ z.f = 0 /\ z.m = 0 /\ z.poaching = RInt(0)
            /\ z.model_type = model_type /\ z.n = n
            /\ z.IC_set = "X1"
            /\ \A i \in 1 .. n : z.X1[n + i] = C0L
            /\ coralsol[1] = z.X1[n + 1])
    /\ [][pc' = "recovery_returned" => UNCHANGED CallerParams]_vars

\* a caller with its own closures and fishing, and a trajectory that
\* touches the threshold without exceeding it before it crosses
C24_Witness ==
    /\ pc = "recovery_returned"
    /\ f = 1 /\ m = 1 /\ closure_length > 0
    /\ n = 2
    /\ Len(coralsol) >= 3
    /\ coralsol[2] = FamilyThreshold
    /\ StrictlyAbove(coralsol[3], FamilyThreshold)
    /\ crt = 2 + SettlingMargin

----------------------------------------------------------------------------
(* Claims about the assembly of the right-hand side, checked under         *)
(* SpecPatch                                                               *)

RECURSIVE DotFrom(_, _, _)
\* the dot product of row i of kP with the fish sub-vector of X, summed
\* from entry j up to the last
DotFrom(i, XX, j) ==
    IF j >= n THEN RInt(0)
    ELSE RAdd(RMul(kP[i][j], XX[j + 1]), DotFrom(i, XX, j + 1))

\* the number of compartments of the family's state vector
Compartments == IF model_type = "RB" THEN 4 ELSE 3

\* the kernel each family is evaluated by
FamilyKernel ==
    CASE model_type = "RB" -> "rass_briggs"
      [] model_type = "BM" -> "blackwood"
      [] model_type \in {"vdL", "vdL_MC", "vdL_MP", "vdL_PC"} -> "leemput"
      [] OTHER -> "none"

\* patch_system has returned for a recognized family
Returned == pc = "evaluated" /\ model_type \in RecognizedTypes

\* C25: for every patch i the influx is the dot product of row i of kP with
\* the fish sub-vector X[0..n-1]; it is passed to exactly one kernel, chosen
\* by model_type ('RB' -> rass_briggs, 'BM' -> blackwood, the four 'vdL'
\* types -> leemput); the derivatives are returned in the order of the state
\* vector: all fish, all coral, all algae (for 'RB' fish, coral, vulnerable
\* algae, invulnerable algae), each block of length n, entry i of patch i.
C25_AssembledInStateOrder ==
    Returned =>
        /\ kernel = FamilyKernel
        /\ Len(rhs_ret) = Compartments * n
        /\ Len(rhs_ret) = Len(X)
        /\ \E influx \in {[i \in Patches |-> DotFrom(i, X, 0)]} :
            \A i \in Patches :
                \E results \in {
                    CASE FamilyKernel = "rass_briggs" -> rass_briggs(X, t, i, Self, influx)
                      [] FamilyKernel = "blackwood" -> blackwood(X, t, i, Self, influx)
                      [] OTHER -> leemput(X, t, i, Self, influx)} :
                    /\ Len(results) = Compartments
                    /\ \A b \in 0 .. Compartments - 1 :
                        rhs_ret[b * n + i + 1] = results[b + 1]

\* four compartments, fish moving between patches that hold different
\* densities, and derivatives that differ from patch to patch
C25_Witness ==
    /\ Returned
    /\ model_type = "RB"
    /\ n >= 3
    /\ frac_nomove # RInt(1)
    /\ \E i \in Patches : DotFrom(i, X, 0) # RInt(0)
    /\ \E i, j \in Patches : rhs_ret[i + 1] # rhs_ret[j + 1]
    /\ \E i, j \in Patches : rhs_ret[2 * n + i + 1] # rhs_ret[3 * n + j + 1]

RECURSIVE TotalInflux(_, _)
\* P_influx[0] + ... + P_influx[k - 1]
TotalInflux(P_influx, k) ==
    IF k = 0 THEN RInt(0) ELSE RAdd(TotalInflux(P_influx, k - 1), P_influx[k - 1])

\* every patch holds the same fish density
UniformFish(XX) == \A i, j \in 1 .. n : XX[i] = XX[j]

\* C28: for every state vector and every n >= 1 the dispersal influxes
\* P_influx[0..n-1] computed by patch_system sum to zero over the patches,
\* and when all patches hold the same fish density every influx is zero.
C28_DispersalConservesFish ==
    Returned =>
        \E P_influx \in {P_influx_of(X, Self)} :
            /\ TotalInflux(P_influx, n) = RInt(0)
            /\ UniformFish(X) => \A i \in Patches : P_influx[i] = RInt(0)

\* fish moving between patches of different density: influxes of both
\* signs that cancel
C28_Witness ==
    /\ Returned
    /\ n >= 3
    /\ frac_nomove # RInt(1)
    /\ ~UniformFish(X)
    /\ \E i, j \in Patches :
        /\ P_influx_of(X, Self)[i].num > 0
        /\ P_influx_of(X, Self)[j].num < 0

----------------------------------------------------------------------------
(* Repeated calls of patch_system on one model, the caller holding on to   *)
(* an array an earlier call returned                                       *)

\* the models the repeated calls are made on
RepeatPatches == {2, 3}
RepeatTypes == {"vdL", "RB"}

\* a loaded model with dispersal, fishing and one closed patch
RepeatInit ==
    /\ RunInit
    /\ model_type \in RepeatTypes
    /\ n \in RepeatPatches
    /\ frac_nomove # RInt(1)
    /\ f = 1
    /\ m = 1

\* the caller keeps the array the last call returned (odeint keeps the
\* derivative arrays of earlier evaluations while it calls again)
hold_result ==
    /\ pc = "evaluated"
    /\ held' = [X |-> X, t |-> t, ret |-> rhs_ret, overwritten |-> FALSE]
    /\ UNCHANGED <<pc, modelVars, presetVars, signalVars, bisectVars, recoveryVars>>
    /\ UNCHANGED <<scratchVars, params, X, kernel, rhs_ret, runVars, sweepVars, yieldVars>>

RepeatNext == patch_system \/ hold_result

SpecRepeat == RepeatInit /\ [][RepeatNext]_vars

(* A claim about repeated calls, checked under SpecRepeat *)

\* the latest call had the arguments of the call whose result is held
SameCallAgain == pc = "evaluated" /\ held # <<>> /\ held.X = X /\ held.t = t

\* C29: for a fixed configuration two sequential calls of patch_system with
\* the same (X, t) return equal derivative vectors whatever calls were made
\* on the model in between: every returned entry is overwritten for all
\* patches before the result is assembled, and the array returned earlier
\* is not the scratch memory, so it still holds what it held.
C29_SameArgumentsSameResult ==
    /\ SameCallAgain => held.ret = rhs_ret
    /\ (pc = "evaluated" /\ held # <<>>) =>
        \E results \in {all_results(held.X, held.t, Self)} :
            \A i \in Patches : \A b \in 0 .. Compartments - 1 :
                held.ret[b * n + i + 1] = results[i][b + 1]

\* the call is repeated after a call that left other values in the
\* scratch arrays
C29_Witness ==
    /\ SameCallAgain
    /\ held.overwritten
    /\ held.ret = rhs_ret
    /\ \A i \in Patches : dPs[i] = held.ret[i + 1]

----------------------------------------------------------------------------
(* loop_over_m_vals: the average of coral cover over the end of a run      *)

\* the longest horizon len(t)
MaxHorizon == 9

\* line 696: periods = crt * [0.25, 0.5, 1, 2, 4], whole or not, here the
\* ones of at least 1
AvgPeriods == {RInt(1), Rat(5, 4), Rat(3, 2), RInt(2), Rat(5, 2), RInt(3), RInt(4)}

\* Python's int(x) for x >= 0
IntOf(x) == x.num \div x.den

\* Python's range(a, b)
Range(a, b) == [k \in 1 .. (IF b > a THEN b - a ELSE 0) |-> a + k - 1]

\* Python's sol[year]: a negative index counts from the end
PyIndex(year, len) == IF year < 0 THEN len + year ELSE year

\* the coral column of the trajectory: row k, patch j
CoralAt(k, j) == Rat(k + j + 1, 2 * MaxHorizon)

RECURSIVE SumPatches(_, _)
SumPatches(k, j) ==
    IF j = 0 THEN RInt(0) ELSE RAdd(SumPatches(k, j - 1), CoralAt(k, j - 1))

RECURSIVE SumRows(_, _)
\* lines 716-718: avg += sol[year][self.n + j] over the rows read and j in range(n)
SumRows(rows, k) ==
    IF k = 0 THEN RInt(0) ELSE RAdd(SumRows(rows, k - 1), SumPatches(rows[k], n))

\* lines 44-53 and 704-712: a model whose run over len(t) output times is
\* done, and the period of the sweep
AverageInit ==
    /\ pc = "integrated"
    /\ model_type = "vdL"
    /\ n \in 1 .. 2
    /\ frac_nomove = RInt(1)
    /\ mgmt_strat = "periodic"
    /\ f = 0
    /\ closure_length = 0
    /\ m \in 0 .. n - 1
    /\ poaching = RInt(0)
    /\ NoPresets
    /\ NoEvaluation
    /\ NoBisection
    /\ NoRecovery
    /\ NoScratch
    /\ NoRhs
    /\ NoRun
    /\ NoYield
    /\ period = 0 /\ fishing_intensity = 0 /\ task_state = <<>> /\ w_task = <<>>
    /\ w_pc = <<>> /\ w_evals = <<>> /\ objs = <<>> /\ observed = <<>>
    /\ seen_buf = <<>> /\ res = <<>>
    /\ \E len \in 1 .. MaxHorizon, per \in AvgPeriods :
        avg = [MAX_TIME |-> len, period |-> per, years |-> <<>>, rows |-> <<>>,
               value |-> NoneValue]

\* lines 713-727: the averaging loop of loop_over_m_vals (line 716) and its return.  A
\* year below -len(t) is outside the trajectory and raises IndexError.
loop_over_m_vals ==
    /\ pc = "integrated"
    /\ \E years \in {Range(avg.MAX_TIME - 2 * IntOf(avg.period)
                            - (avg.MAX_TIME % IntOf(avg.period)),
                           avg.MAX_TIME - (avg.MAX_TIME % IntOf(avg.period)))} :
        IF \E k \in 1 .. Len(years) : years[k] < -avg.MAX_TIME
        THEN /\ pc' = "IndexError"
             /\ avg' = [avg EXCEPT !.years = years]
        ELSE \E rows \in {[k \in 1 .. Len(years) |-> PyIndex(years[k], avg.MAX_TIME)]} :
             /\ avg' = [avg EXCEPT !.years = years, !.rows = rows,
                            !.value = RDiv(RDiv(SumRows(rows, Len(rows)),
                                                RMul(RInt(2), avg.period)),
                                           RInt(n))]
             /\ pc' = "avg_returned"
    /\ UNCHANGED <<modelVars, presetVars, signalVars, bisectVars, recoveryVars>>
    /\ UNCHANGED <<scratchVars, rhsVars, runVars, yieldVars>>
    /\ UNCHANGED <<period, fishing_intensity, task_state, w_task, w_pc, w_evals,
                   objs, observed, seen_buf, res>>

AverageNext == loop_over_m_vals

SpecAverage == AverageInit /\ [][AverageNext]_vars

(* A claim about the averaging window, checked under SpecAverage *)

\* the last multiple of the period not exceeding len(t), if it is whole
LastMultiple == RMul(avg.period, RInt((avg.MAX_TIME * avg.period.den) \div avg.period.num))

\* C26 as stated: for every horizon len(t) and every period >= 1 the value
\* returned is the mean of coral cover over all n patches and the time
\* indices of the final two full periods: every index read lies in
\* 0..len(t)-1 (none is negative and wraps to the end), the window ends at
\* the last multiple of the period not exceeding len(t), and the number of
\* summed samples equals the divisor 2*period*n.
C26_MeanOverLastTwoPeriods ==
    /\ pc # "IndexError"
    /\ pc = "avg_returned" =>
        /\ \A k \in 1 .. Len(avg.years) :
            avg.years[k] >= 0 /\ avg.years[k] <= avg.MAX_TIME - 1
        /\ RInt(avg.years[Len(avg.years)] + 1) = LastMultiple
        /\ RInt(Len(avg.rows) * n) = RMul(RInt(2 * n), avg.period)
        /\ avg.value = RDiv(SumRows(avg.rows, Len(avg.rows)), RInt(Len(avg.rows) * n))

----------------------------------------------------------------------------
(* A claim about the fairness of the rotation, checked under SpecSignal    *)

\* patch i is closed at time tt under the model's management parameters
ClosedAt(i, tt) ==
    square_signal_path(tt, closure_length, i, m, n, mgmt_strat) \in ClosedPaths

\* the slots s of the cycle that begins with the slot of time t in which
\* patch i is closed; slot s covers the times from t + s*closure_length on
ClosedSlots(i) == {s \in 0 .. n - 1 : ClosedAt(i, t + s * closure_length)}

\* the slots of one cycle, by their position in the cycle
CyclePosition(s) == (SlotOf(t) + s) % n

\* C27: under the periodic strategy with closure_length > 0 and 1 <= m <= n
\* the rotation is fair: in every window of n consecutive closure slots
\* every patch is closed in exactly m slots, and those are cyclically
\* consecutive (the slots whose window start is i-m+1, ..., i modulo n), so
\* every patch is closed again within one cycle and, when m < n, also open
\* again within one cycle, for ever.
C27_RotationIsFair ==
    (PeriodicEvaluated /\ 1 <= m /\ m <= n) =>
        \A i \in Patches :
            /\ Cardinality(ClosedSlots(i)) = m
            /\ {CyclePosition(s) : s \in ClosedSlots(i)} =
                    {(i + n - k) % n : k \in 0 .. m - 1}
            /\ \E s \in 0 .. n - 1 : ClosedAt(i, t + s * closure_length)
            /\ m < n => \E s \in 0 .. n - 1 : ~ClosedAt(i, t + s * closure_length)

\* a rotation under way, inside a slot of a later cycle, with the first
\* patch open and the last one closed
C27_Witness ==
    /\ PeriodicEvaluated
    /\ 1 < m /\ m < n
    /\ closure_length >= 2
    /\ t > n * closure_length
    /\ t % closure_length # 0
    /\ path[0] = "periodic_open"
    /\ path[n - 1] \in ClosedPaths
    /\ Cardinality(ClosedSlots(0)) = m

====
